---- MODULE Spec2Model ----
(***************************************************************************)
(* Terma AI: the command-safety classifier (termai/core/safety.py), the    *)
(* confirmation protocol (termai/core/display.py) and the flows that gate  *)
(* command execution behind them (cli.py run, conversational.py,           *)
(* planner.py, goal_agent.py, react_agent.py).                             *)
(*                                                                         *)
(* A command is the sequence of its whitespace-separated tokens; the       *)
(* command string is the tokens joined by single spaces.  A regular        *)
(* expression of safety.py is the sequence of token classes it needs on    *)
(* consecutive tokens: a \s+ inside a pattern is a token border, a \b is   *)
(* a word border inside or at the edge of a token.  All tokens are lower   *)
(* case but -R, and no token is -r, so re.IGNORECASE changes nothing.      *)
(***************************************************************************)
EXTENDS Integers, Sequences, FiniteSets, TLC

\* Longest command, in tokens, that the classifier is applied to.
MaxTokens == 4

\* Longest batch of commands a collaborator returns.
MaxBatch == 3

\* The tokens the classified commands are enumerated over.
Vocab == {"rm", "-rf", "/", "sudo", "ls", "cp", "echo", ">", "/etc/hosts", "file.txt", "curl"}

\* The tokens of the commands of the safety tests (tests/test_safety.py)
\* that Vocab lacks.
TestTokens == {"chmod", "-R", "755", "directory", "apt", "update", "http://example.com"}

\* Every token a command of the model is made of.
Tokens == Vocab \cup TestTokens

\* The \w+ words inside each token, as \b delimits them.
WordsOf == [t \in Tokens |->
    CASE t = "-rf" -> {"rf"}
      [] t = "-R" -> {"R"}
      [] t = "/" -> {}
      [] t = ">" -> {}
      [] t = "/etc/hosts" -> {"etc", "hosts"}
      [] t = "file.txt" -> {"file", "txt"}
      [] t = "http://example.com" -> {"http", "example", "com"}
      [] OTHER -> {t}]

\* The word a token ends with ("" when it ends with a non-word character).
LastWord == [t \in Tokens |->
    CASE t = "-rf" -> "rf"
      [] t = "-R" -> "R"
      [] t = "/" -> ""
      [] t = ">" -> ""
      [] t = "/etc/hosts" -> "hosts"
      [] t = "file.txt" -> "txt"
      [] t = "http://example.com" -> "com"
      [] OTHER -> t]

\* The literal prefixes of a token, other than the token itself, that the
\* pattern tables ask for.
PrefixesOf == [t \in Tokens |->
    CASE t = "/etc/hosts" -> {"/", "/etc/"}
      [] OTHER -> {}]

\* \bw\b : tokens that contain the word w.
Has(w) == {t \in Tokens : w \in WordsOf[t]}

\* \bw\s+ : tokens that end with the word w (white space follows).
Ends(w) == {t \in Tokens : LastWord[t] = w}

\* \s+lit\s+ or \s+lit\b : the token is the literal.
Lit(s) == {t \in Tokens : t = s}

\* lit... : tokens that start with the literal.
StartsWith(p) == {t \in Tokens : t = p \/ p \in PrefixesOf[t]}

\* A trailing \s+ : any token follows.
AnyTok == Tokens

\* pat matches the tokens of cmd from position i on.
MatchAt(cmd, pat, i) ==
    /\ i + Len(pat) - 1 <= Len(cmd)
    /\ \A j \in 1..Len(pat) : cmd[i + j - 1] \in pat[j]

\* re.search(pattern, command, re.IGNORECASE)
Search(pat, cmd) == \E i \in 1..Len(cmd) : MatchAt(cmd, pat, i)

\* _calculate_risk_score: the pattern lists of the four levels.
level5_patterns == <<
    <<Ends("rm"), Lit("-rf"), StartsWith("/")>>,
    <<Ends("dd"), StartsWith("if=/dev/zero")>>,
    <<Has("mkfs")>>,
    <<Has("fdisk")>>,
    <<Has("parted")>>,
    <<Ends("kill"), Lit("-9"), StartsWith("-1")>> >>

level4_patterns == <<
    <<Lit(">"), StartsWith("/etc/")>>,
    <<Lit(">"), StartsWith("/boot/")>>,
    <<Lit(">"), StartsWith("/bin/")>>,
    <<Ends("chmod"), Lit("777"), Lit("-R"), StartsWith("/")>>,
    <<Ends("chown"), Lit("root"), StartsWith("/")>> >>

level3_patterns == <<
    <<Has("sudo")>>,
    <<Ends("iptables"), StartsWith("-F")>>,
    <<Ends("chmod"), Lit("777"), Lit("-R")>> >>

level2_patterns == <<
    <<Ends("rm"), AnyTok>>,
    <<Has("unlink")>>,
    <<Ends("mv"), AnyTok>>,
    <<Ends("chmod"), AnyTok>>,
    <<Ends("chown"), AnyTok>>,
    <<Lit(">"), AnyTok>>,
    <<Ends("rmdir"), AnyTok>> >>

read_only_patterns == <<
    <<Has("ls")>>, <<Has("cat")>>, <<Has("find")>>, <<Has("grep")>>, <<Has("pwd")>>,
    <<Has("df")>>, <<Has("du")>>, <<Has("head")>>, <<Has("tail")>>, <<Has("less")>>,
    <<Has("more")>>, <<Has("wc")>>, <<Has("stat")>>, <<Has("file")>>, <<Has("which")>>,
    <<Has("whereis")>>, <<Has("locate")>>, <<Has("type")>>,
    <<Ends("command"), Lit("-v")>> >>

\* any(re.search(p, command) for p in pats)
AnyMatch(pats, cmd) == \E k \in 1..Len(pats) : Search(pats[k], cmd)

\* _calculate_risk_score with the levels tried in a wrong order (3 before 5).
CalculateRiskScoreWrongOrder(cmd) ==
    IF AnyMatch(level3_patterns, cmd) THEN 3
    ELSE IF AnyMatch(level5_patterns, cmd) THEN 5
    ELSE IF AnyMatch(level4_patterns, cmd) THEN 4
    ELSE IF AnyMatch(level2_patterns, cmd) THEN 2
    ELSE IF AnyMatch(read_only_patterns, cmd) THEN 1
    ELSE 2

\* _calculate_risk_score without the read-only check.
CalculateRiskScoreNoReadOnly(cmd) ==
    IF AnyMatch(level5_patterns, cmd) THEN 5
    ELSE IF AnyMatch(level4_patterns, cmd) THEN 4
    ELSE IF AnyMatch(level3_patterns, cmd) THEN 3
    ELSE IF AnyMatch(level2_patterns, cmd) THEN 2
    ELSE 2

\* _calculate_risk_score: most severe level first, the first hit returns.
calculate_risk_score(cmd) ==
    IF AnyMatch(level5_patterns, cmd) THEN 5
    ELSE IF AnyMatch(level4_patterns, cmd) THEN 4
    ELSE IF AnyMatch(level3_patterns, cmd) THEN 3
    ELSE IF AnyMatch(level2_patterns, cmd) THEN 2
    ELSE IF AnyMatch(read_only_patterns, cmd) THEN 1
    ELSE 2

\* _get_risk_level without a label for scores below 2.
get_risk_level_unlabelled(cmd) ==
    LET score == calculate_risk_score(cmd) IN
    IF score >= 5 THEN "CRITICAL"
    ELSE IF score >= 4 THEN "HIGH"
    ELSE IF score >= 3 THEN "MEDIUM-HIGH"
    ELSE IF score >= 2 THEN "MEDIUM"
    ELSE ""

\* _get_risk_level: the step function from score to label.
get_risk_level(cmd) ==
    LET score == calculate_risk_score(cmd) IN
    IF score >= 5 THEN "CRITICAL"
    ELSE IF score >= 4 THEN "HIGH"
    ELSE IF score >= 3 THEN "MEDIUM-HIGH"
    ELSE IF score >= 2 THEN "MEDIUM"
    ELSE "LOW"

\* _get_dangerous_patterns: (pattern, reason) in table order.
dangerous_patterns == <<
    [pat |-> <<Ends("rm"), Lit("-rf"), StartsWith("/")>>, reason |-> "CRITICAL: 'rm -rf /' can destroy entire system"],
    [pat |-> <<Ends("rm"), Lit("-rf"), StartsWith("*")>>, reason |-> "CRITICAL: 'rm -rf *' can delete all files"],
    [pat |-> <<Ends("rm"), Lit("-rf")>>, reason |-> "HIGH: Recursive deletion can remove multiple files"],
    [pat |-> <<Ends("rm"), AnyTok>>, reason |-> "MEDIUM: File deletion - data cannot be recovered easily"],
    [pat |-> <<Has("unlink")>>, reason |-> "MEDIUM: File deletion command"],
    [pat |-> <<Has("delete")>>, reason |-> "MEDIUM: File deletion operation"],
    [pat |-> <<Ends("mv"), AnyTok>>, reason |-> "MEDIUM: Moving/renaming files can overwrite existing files"],
    [pat |-> <<Ends("cp"), AnyTok>>, reason |-> "LOW-MEDIUM: Copying files can overwrite existing files"],
    [pat |-> <<Ends("chmod"), AnyTok>>, reason |-> "MEDIUM: Changing file permissions"],
    [pat |-> <<Ends("chown"), AnyTok>>, reason |-> "MEDIUM: Changing file ownership"],
    [pat |-> <<Ends("chgrp"), AnyTok>>, reason |-> "MEDIUM: Changing file group"],
    [pat |-> <<Ends("touch"), AnyTok>>, reason |-> "LOW: Creating/modifying file timestamps"],
    [pat |-> <<Lit(">"), AnyTok>>, reason |-> "MEDIUM: Redirecting output can overwrite files"],
    [pat |-> <<Lit(">>"), AnyTok>>, reason |-> "LOW: Appending to files (safer but still modification)"],
    [pat |-> <<Ends("tee"), AnyTok>>, reason |-> "MEDIUM: Writing to files"],
    [pat |-> <<Ends("dd"), StartsWith("if=/dev/zero")>>, reason |-> "CRITICAL: 'dd if=/dev/zero' can overwrite disks"],
    [pat |-> <<Has("mkfs")>>, reason |-> "CRITICAL: Filesystem formatting can destroy data"],
    [pat |-> <<Has("fdisk")>>, reason |-> "CRITICAL: Disk partitioning can destroy data"],
    [pat |-> <<Has("parted")>>, reason |-> "CRITICAL: Partition editing can destroy data"],
    [pat |-> <<Has("format")>>, reason |-> "CRITICAL: Formatting can destroy data"],
    [pat |-> <<Has("sudo")>>, reason |-> "HIGH: Sudo commands require elevated privileges"],
    [pat |-> <<Has("su")>>, reason |-> "HIGH: Privilege escalation"],
    [pat |-> <<Has("doas")>>, reason |-> "HIGH: Privilege escalation"],
    [pat |-> <<Lit(">"), StartsWith("/etc/")>>, reason |-> "CRITICAL: Modifying system configuration files"],
    [pat |-> <<Lit(">"), StartsWith("/boot/")>>, reason |-> "CRITICAL: Modifying boot files"],
    [pat |-> <<Lit(">"), StartsWith("/bin/")>>, reason |-> "CRITICAL: Modifying system binaries"],
    [pat |-> <<Lit(">"), StartsWith("/usr/bin/")>>, reason |-> "CRITICAL: Modifying system binaries"],
    [pat |-> <<Lit(">"), StartsWith("/sbin/")>>, reason |-> "CRITICAL: Modifying system binaries"],
    [pat |-> <<Lit(">"), StartsWith("/lib/")>>, reason |-> "CRITICAL: Modifying system libraries"],
    [pat |-> <<Ends("chmod"), Lit("777"), Lit("-R")>>, reason |-> "HIGH: Recursive 777 permissions are insecure"],
    [pat |-> <<Ends("chmod"), Lit("777")>>, reason |-> "MEDIUM-HIGH: 777 permissions are insecure"],
    [pat |-> <<Ends("chown"), Lit("root")>>, reason |-> "HIGH: Changing ownership to root"],
    [pat |-> <<Ends("chmod"), Lit("-R")>>, reason |-> "MEDIUM: Recursive permission changes"],
    [pat |-> <<Ends("chown"), Lit("-R")>>, reason |-> "MEDIUM: Recursive ownership changes"],
    [pat |-> <<Ends("iptables"), StartsWith("-F")>>, reason |-> "HIGH: Flushing firewall rules"],
    [pat |-> <<Ends("iptables"), StartsWith("-X")>>, reason |-> "HIGH: Deleting firewall rules"],
    [pat |-> <<Ends("ip"), Lit("route"), StartsWith("del")>>, reason |-> "MEDIUM: Deleting network routes"],
    [pat |-> <<Ends("kill"), Lit("-9"), StartsWith("-1")>>, reason |-> "CRITICAL: Killing all processes"],
    [pat |-> <<Ends("killall"), StartsWith("-9")>>, reason |-> "HIGH: Force killing all instances"],
    [pat |-> <<Ends("kill"), Lit("-9")>>, reason |-> "MEDIUM: Force killing processes"],
    [pat |-> <<Ends("pkill"), AnyTok>>, reason |-> "MEDIUM: Killing processes by name"],
    [pat |-> <<Ends("apt"), StartsWith("remove") \cup StartsWith("purge") \cup StartsWith("autoremove")>>, reason |-> "MEDIUM: Removing packages"],
    [pat |-> <<Ends("yum"), StartsWith("remove")>>, reason |-> "MEDIUM: Removing packages"],
    [pat |-> <<Ends("dnf"), StartsWith("remove")>>, reason |-> "MEDIUM: Removing packages"],
    [pat |-> <<Ends("pacman"), StartsWith("-R")>>, reason |-> "MEDIUM: Removing packages"],
    [pat |-> <<Ends("rmdir"), AnyTok>>, reason |-> "MEDIUM: Removing directories"],
    [pat |-> <<Ends("mkdir"), Lit("-p"), StartsWith("/")>>, reason |-> "HIGH: Creating directories in system paths"] >>

\* _get_warning_patterns: (pattern, warning) in table order.
warning_patterns == <<
    [pat |-> <<Ends("chmod"), Lit("-R")>>, warning |-> "Warning: recursive permission changes can be dangerous"],
    [pat |-> <<Ends("chown"), Lit("-R")>>, warning |-> "Warning: recursive ownership changes can be dangerous"],
    [pat |-> <<Ends("grep"), Lit("-r")>>, warning |-> "Warning: recursive grep on large directories may be slow"],
    [pat |-> <<Ends("find"), Lit("/")>>, warning |-> "Warning: searching from root may take a long time"],
    [pat |-> <<Has("wget")>>, warning |-> "Warning: downloading files from internet"],
    [pat |-> <<Has("curl")>>, warning |-> "Warning: network requests can be slow or fail"],
    [pat |-> <<Has("apt")>>, warning |-> "Warning: package management may require privileges"],
    [pat |-> <<Has("yum")>>, warning |-> "Warning: package management may require privileges"],
    [pat |-> <<Has("dnf")>>, warning |-> "Warning: package management may require privileges"],
    [pat |-> <<Has("pacman")>>, warning |-> "Warning: package management may require privileges"] >>

\* Positions of the table entries whose pattern is found in cmd.
Hits(table, cmd) == {k \in 1..Len(table) : Search(table[k].pat, cmd)}

\* The first hit of a non-empty set of table positions.
FirstOf(S) == CHOOSE k \in S : \A m \in S : k <= m

\* _is_command_risky over a table that lacks the privilege-escalation entries.
is_command_risky_no_sudo(cmd) ==
    LET hits == {k \in Hits(dangerous_patterns, cmd) :
                    dangerous_patterns[k].pat \notin {<<Has("sudo")>>, <<Has("su")>>, <<Has("doas")>>}}
    IN
    IF hits # {} THEN [risky |-> TRUE, reason |-> dangerous_patterns[FirstOf(hits)].reason]
    ELSE [risky |-> FALSE, reason |-> ""]

\* _is_command_risky: the first dangerous pattern found decides, and gives the reason.
is_command_risky(cmd) ==
    LET hits == Hits(dangerous_patterns, cmd) IN
    IF hits # {} THEN [risky |-> TRUE, reason |-> dangerous_patterns[FirstOf(hits)].reason]
    ELSE [risky |-> FALSE, reason |-> ""]

\* _has_command_warning: the first warning pattern found.
has_command_warning(cmd) ==
    LET hits == Hits(warning_patterns, cmd) IN
    IF hits # {} THEN [has |-> TRUE, warning |-> warning_patterns[FirstOf(hits)].warning]
    ELSE [has |-> FALSE, warning |-> ""]

\* One pass of the loop of check_commands that files a risky command under
\* safe_commands as well.
check_step_also_safe(acc, i, cmd) ==
    LET r == is_command_risky(cmd)
        w == has_command_warning(cmd)
    IN  IF r.risky
        THEN [acc EXCEPT !.safe_commands = Append(@, cmd),
                         !.risky_commands = Append(@, [index |-> i, command |-> cmd, reason |-> r.reason,
                                                     risk_level |-> get_risk_level(cmd),
                                                     risk_score |-> calculate_risk_score(cmd)])]
        ELSE [acc EXCEPT !.safe_commands = Append(@, cmd)]

\* One pass of the loop of check_commands that records the warning of a
\* risky command too.
check_step_warns_risky(acc, i, cmd) ==
    LET r == is_command_risky(cmd)
        w == has_command_warning(cmd)
        warned == IF w.has THEN Append(acc.warnings, [index |-> i, command |-> cmd, warning |-> w.warning])
                  ELSE acc.warnings
    IN  IF r.risky
        THEN [acc EXCEPT !.risky_commands = Append(@, [index |-> i, command |-> cmd, reason |-> r.reason,
                                                     risk_level |-> get_risk_level(cmd),
                                                     risk_score |-> calculate_risk_score(cmd)]),
                         !.warnings = warned]
        ELSE [acc EXCEPT !.safe_commands = Append(@, cmd), !.warnings = warned]

\* One pass of the loop of check_commands: command cmd at (0-based) index i.
check_step(acc, i, cmd) ==
    LET r == is_command_risky(cmd)
        w == has_command_warning(cmd)
    IN  IF r.risky
        THEN [acc EXCEPT !.risky_commands = Append(@, [index |-> i, command |-> cmd, reason |-> r.reason,
                                                     risk_level |-> get_risk_level(cmd),
                                                     risk_score |-> calculate_risk_score(cmd)])]
        ELSE [acc EXCEPT !.safe_commands = Append(@, cmd),
                         !.warnings = IF w.has
                                      THEN Append(@, [index |-> i, command |-> cmd, warning |-> w.warning])
                                      ELSE @]

RECURSIVE check_loop(_, _, _)
\* for i, cmd in enumerate(commands): from position k (1-based) on.
check_loop(cmds, k, acc) ==
    IF k > Len(cmds) THEN acc
    ELSE check_loop(cmds, k + 1, check_step(acc, k - 1, cmds[k]))

\* check_commands: the safety report of a batch.
check_commands(cmds) ==
    LET acc == check_loop(cmds, 1, [risky_commands |-> <<>>, warnings |-> <<>>, safe_commands |-> <<>>])
    IN  [safe |-> Len(acc.risky_commands) = 0,
         safe_commands |-> acc.safe_commands,
         risky_commands |-> acc.risky_commands,
         warnings |-> acc.warnings,
         total_commands |-> Len(cmds),
         has_risky |-> Len(acc.risky_commands) > 0]

\* analyze_impact: score and level of one command.
analyze_impact(cmd) ==
    [risk_score |-> calculate_risk_score(cmd), risk_level |-> get_risk_level(cmd)]

\* The groups show_risky_commands prints, with the title of each.
ShownLevels == {"CRITICAL", "HIGH", "MEDIUM"}

\* show_risky_commands: the panels printed, one per entry of a printed group.
show_risky_commands(risky) ==
    {[index |-> risky[k].index, command |-> risky[k].command,
      reason |-> risky[k].reason, level |-> risky[k].risk_level] :
        k \in {m \in 1..Len(risky) : risky[m].risk_level \in ShownLevels}}

\* any(c.get("risk_level") == "CRITICAL" for c in risky_commands)
HasCritical(risky) == \E k \in 1..Len(risky) : risky[k].risk_level = "CRITICAL"

\* What the user may type at a yes/no prompt ("" is the bare return key).
Answers == {"yes", "no", ""}

\* Confirm.ask that takes the bare return key for yes.
ConfirmAskReturnIsYes(ans, d) == ans # "no"

\* Confirm.ask(..., default=d)
ConfirmAsk(ans, d) == IF ans = "" THEN d ELSE ans = "yes"

\* confirm_risky_execution that never asks the FINAL WARNING.
NeedsFinalWarningNever(has_critical, response) == FALSE

\* confirm_risky_execution: after the first answer, is the FINAL WARNING asked?
NeedsFinalWarning(has_critical, response) == has_critical /\ response

\* The first prompt of confirm_risky_execution.
FirstPrompt(has_critical) == IF has_critical THEN "ABSOLUTELY SURE" ELSE "PROCEED"

\* list.insert(i, x), i counted from 0.
InsertAt(s, i, x) ==
    IF i >= Len(s) THEN Append(s, x)
    ELSE SubSeq(s, 1, i) \o <<x>> \o SubSeq(s, i + 1, Len(s))

RECURSIVE InsertRisky(_, _, _)
\* for risky in risky_commands_list: all_commands.insert(risky["index"], risky["command"])
InsertRisky(all, risky, k) ==
    IF k > Len(risky) THEN all
    ELSE InsertRisky(InsertAt(all, risky[k].index, risky[k].command), risky, k + 1)

RECURSIVE AppendRisky(_, _, _)
AppendRisky(all, risky, k) ==
    IF k > Len(risky) THEN all
    ELSE AppendRisky(Append(all, risky[k].command), risky, k + 1)

\* The execution list with the risky commands put after the safe ones.
MergeSafeFirst(report) == AppendRisky(report.safe_commands, report.risky_commands, 1)

\* run: all_commands, the safe commands with the risky ones inserted back.
MergeCommands(report) == InsertRisky(report.safe_commands, report.risky_commands, 1)

Min(a, b) == IF a < b THEN a ELSE b

\* zip(commands, explanations)
Zip(cmds, expls) ==
    [k \in 1..Min(Len(cmds), Len(expls)) |-> [command |-> cmds[k], explanation |-> expls[k]]]

\* _parse_response on well-formed JSON: nExpl explanations came with cmds.
\* Explanation k of the collaborator is k; the padding text is 0.  With more
\* explanations than commands, commands.pop() empties the list and raises,
\* which generate_commands turns into an error result.
parse_response(cmds, nExpl) ==
    IF nExpl > Len(cmds)
    THEN [error |-> TRUE, commands |-> <<>>, explanations |-> <<>>]
    ELSE [error |-> FALSE, commands |-> cmds,
          explanations |-> [k \in 1..Len(cmds) |-> IF k <= nExpl THEN k ELSE 0]]

\* The markers a collaborator may wrap its answer in: none, three backquotes,
\* or three backquotes and the word json.
Fences == {"none", "fence", "fence_json"}

\* What chat.completions.create does: it raises, or returns a content that
\* is a JSON object with cmds and nExpl explanations, a JSON value that is
\* no object, or no JSON at all, bare or wrapped in code-fence markers.
Response(api, body, fence, cmds, nExpl) ==
    [api |-> api, body |-> body, fence |-> fence, commands |-> cmds, nExpl |-> nExpl]

\* json.loads(content.strip()) succeeds.
json_loads_ok(resp) == resp.body \in {"object", "not_object"} /\ resp.fence = "none"

\* _parse_response(content): the dict returned, or raised when an exception
\* other than JSONDecodeError leaves it.
parse_content(resp) ==
    IF ~json_loads_ok(resp)
    THEN [raised |-> FALSE, error |-> "Invalid JSON response", commands |-> <<>>, explanations |-> <<>>]
    ELSE IF resp.body = "not_object" \/ parse_response(resp.commands, resp.nExpl).error
    THEN [raised |-> TRUE, error |-> "", commands |-> <<>>, explanations |-> <<>>]
    ELSE [raised |-> FALSE, error |-> "",
          commands |-> parse_response(resp.commands, resp.nExpl).commands,
          explanations |-> parse_response(resp.commands, resp.nExpl).explanations]

\* generate_commands that lets the exception of the API call through.
generate_commands_unguarded(resp) ==
    IF resp.api = "raise"
    THEN [error |-> "", commands |-> <<>>, explanations |-> <<>>]
    ELSE IF parse_content(resp).raised
    THEN [error |-> "Failed to generate commands", commands |-> <<>>, explanations |-> <<>>]
    ELSE [error |-> parse_content(resp).error, commands |-> parse_content(resp).commands,
          explanations |-> parse_content(resp).explanations]

\* generate_commands: the API call and _parse_response inside one try.
generate_commands(resp) ==
    IF resp.api = "raise" \/ parse_content(resp).raised
    THEN [error |-> "Failed to generate commands", commands |-> <<>>, explanations |-> <<>>]
    ELSE [error |-> parse_content(resp).error, commands |-> parse_content(resp).commands,
          explanations |-> parse_content(resp).explanations]

(***************************************************************************)
(* State.  flow and the options are fixed per invocation; the rest is the  *)
(* locals of the flow, what was printed and asked for the batch under the  *)
(* gate, and every command handed to CommandExecutor.execute_commands.     *)
(***************************************************************************)
VARIABLES
    flow,                  \* "run", "chat", "plan", "goal", "react" ("classify", "check": the checker alone)
    confirmOn,             \* run: confirm; chat: confirm_risky; goal, react: not auto_confirm; plan: always
    dry_run,               \* run, plan, goal: --dry-run
    verbose,               \* react: --verbose/--quiet
    pc,                    \* where the flow stands
    commands,              \* the generated commands (run, chat), plan steps or planned actions
    explanations,          \* the explanation of each command, index-aligned
    step,                  \* plan, goal, react: the step under way (1-based); 0 in run and chat
    all_commands,          \* the batch the gate is applied to and the executor receives
    safety_result,         \* check_commands of that batch
    shown,                 \* the panels show_risky_commands printed for that batch
    prompts,               \* the prompts confirm_risky_execution asked for that batch, with the answers
    confirmed,             \* what confirm_risky_execution returned for that batch: "none", "yes", "no"
    requires_confirmation, \* goal: the step's requires_confirmation flag
    executed,              \* every (command, explanation) passed to execute_commands, in order
    declined,              \* the batches (by step) for which confirm_risky_execution returned false
    outcome,               \* how the flow ended
    impact,                \* analyze_impact of the classified command
    results,               \* execute_commands: the results list
    execution_result,      \* execute_commands: the dict returned
    llm_response,          \* run, chat: the dict generate_commands returned
    content,               \* run, chat: what the command-generation collaborator answered
    max_iterations,        \* ReActAgent: the iteration budget of the call
    current_iteration,     \* ReActAgent: the iterations started
    todo_list,             \* ReActAgent: the todos, each with id and completed
    observation_history,   \* ReActAgent: one entry per _observe
    action_history,        \* ReActAgent: one entry per _act
    reasoning_history,     \* ReActAgent: one entry per _reason
    goal_achieved,         \* achieve_goal: local flag
    goal_impossible,       \* achieve_goal: local flag
    actions,               \* achieve_goal: the actions of the plan of the iteration
    action_results,        \* achieve_goal: the results of the actions of the iteration
    calls,                 \* achieve_goal: the phases gone through, each with its iteration
    final,                 \* achieve_goal: the dict returned
    invocation             \* ReActAgent: the achieve_goal calls made on the agent

opts == <<flow, confirmOn, dry_run, verbose, invocation>>
gate == <<all_commands, safety_result, shown, prompts, confirmed, requires_confirmation>>
ext == <<results, execution_result>>
llm == <<llm_response, content>>
agent == <<max_iterations, current_iteration, todo_list, observation_history, action_history,
           reasoning_history, goal_achieved, goal_impossible, actions, action_results, calls, final>>
vars == <<flow, confirmOn, dry_run, verbose, pc, commands, explanations, step, all_commands,
          safety_result, shown, prompts, confirmed, requires_confirmation, executed, declined,
          outcome, impact, results, execution_result, llm_response, content, max_iterations,
          current_iteration, todo_list, observation_history, action_history, reasoning_history,
          goal_achieved, goal_impossible, actions, action_results, calls, final, invocation>>

\* No call of execute_commands has returned.
NoResult == [total_commands |-> 0, executed_commands |-> 0, all_successful |-> TRUE, returned |-> FALSE]

\* generate_commands has not been called.
NoResponse == [error |-> "", commands |-> <<>>, explanations |-> <<>>]

\* The collaborator has not been called.
NoContent == [api |-> "none", body |-> "none", fence |-> "none", commands |-> <<>>, nExpl |-> 0]

\* achieve_goal has not returned.
NoFinal == [status |-> "none", iterations |-> 0, goal_achieved |-> FALSE, total_actions |-> 0]

\* ReActAgent.__init__: the agent state.
InitAgent ==
    /\ max_iterations = 7
    /\ current_iteration = 0
    /\ todo_list = <<>>
    /\ observation_history = <<>>
    /\ action_history = <<>>
    /\ reasoning_history = <<>>
    /\ goal_achieved = FALSE
    /\ goal_impossible = FALSE
    /\ actions = <<>>
    /\ action_results = <<>>
    /\ calls = <<>>
    /\ final = NoFinal
    /\ invocation = 0

\* The state of the components a flow does not enter.
InitExt ==
    /\ results = <<>>
    /\ execution_result = NoResult
    /\ llm_response = NoResponse
    /\ content = NoContent
    /\ InitAgent

\* Every command of one to MaxTokens tokens.
Commands == UNION {[1..n -> Vocab] : n \in 1..MaxTokens}

\* The commands the collaborators answer with in the flows.
Pool == {<<"ls">>, <<"rm", "file.txt">>, <<"sudo", "ls">>, <<"rm", "-rf", "/">>}

\* The command lists a collaborator may return.
Batches == UNION {[1..n -> Pool] : n \in 0..MaxBatch}

Flows == {"run", "chat", "plan", "goal", "react"}
Stepwise == {"plan", "goal", "react"}

NoImpact == [risk_score |-> 0, risk_level |-> "none"]

Init ==
    /\ flow \in Flows
    /\ confirmOn \in (IF flow = "plan" THEN {TRUE} ELSE BOOLEAN)
    /\ dry_run \in (IF flow \in {"run", "plan", "goal"} THEN BOOLEAN ELSE {FALSE})
    /\ verbose \in (IF flow = "react" THEN BOOLEAN ELSE {TRUE})
    /\ pc = "start"
    /\ commands = <<>>
    /\ explanations = <<>>
    /\ step = 0
    /\ all_commands = <<>>
    /\ safety_result = check_commands(<<>>)
    /\ shown = {}
    /\ prompts = <<>>
    /\ confirmed = "none"
    /\ requires_confirmation = FALSE
    /\ executed = <<>>
    /\ declined = {}
    /\ outcome = "none"
    /\ impact = NoImpact
    /\ InitExt

\* The flow ends with result r.
Finish(r) == pc' = "done" /\ outcome' = r

\* After a negative confirm_risky_execution plan stays in its step loop.
PcAfterCancelPlanGoesOn ==
    CASE flow \in {"run", "chat"} -> "done"
      [] flow = "goal" -> "ask_continue"
      [] flow \in {"plan", "react"} -> "step"

\* After a negative confirm_risky_execution the flow goes on to execute anyway.
PcAfterCancelRunsAnyway == "exec"

\* Where the flow goes when confirm_risky_execution returned false:
\* run and chat end ("cancelled"), plan ends ("aborted"), goal asks whether
\* to continue with the next step, react skips the action.
PcAfterCancel ==
    CASE flow \in {"run", "chat", "plan"} -> "done"
      [] flow = "goal" -> "ask_continue"
      [] flow = "react" -> "step"

\* The gate that lets a run with --dry-run reach the executor.
PcAfterGateIgnoresDryRun(rc) ==
    IF flow = "goal" /\ rc /\ confirmOn THEN "ask_step"
    ELSE "exec"

\* Where the flow goes once the gate lets the batch through: goal asks again
\* for a step that requires confirmation, run stops on --dry-run, all others
\* call the executor.
PcAfterGate(rc) ==
    IF flow = "goal" /\ rc /\ confirmOn THEN "ask_step"
    ELSE IF flow = "run" /\ dry_run THEN "done"
    ELSE "exec"

OutcomeAfterGate == IF flow = "run" /\ dry_run THEN "dry_run" ELSE outcome

\* plan, goal, react: the planning collaborator fails.
LLMFails ==
    /\ pc = "start"
    /\ flow \in Stepwise
    /\ Finish("error")
    /\ UNCHANGED <<opts, ext, llm, agent, commands, explanations, step, gate, executed, declined, impact>>

\* process_query: analyze_query says needs_execution = false.
ChatConversational ==
    /\ pc = "start"
    /\ flow = "chat"
    /\ Finish("conversational")
    /\ UNCHANGED <<opts, ext, llm, agent, commands, explanations, step, gate, executed, declined, impact>>

\* run (cli.py) and process_query (conversational.py) from the collaborator's
\* answer to the first prompt, the executor call or the end.
Generate(resp) ==
    /\ pc = "start"
    /\ flow \in {"run", "chat"}
    /\ content' = resp
    /\ llm_response' = generate_commands(resp)
    /\ LET g == generate_commands(resp)
           report == check_commands(g.commands)
       IN  IF g.error # ""
           THEN /\ Finish("error")
                /\ UNCHANGED <<commands, explanations, gate>>
           ELSE IF g.commands = <<>>
           THEN /\ Finish(IF flow = "run" THEN "error" ELSE "conversational")
                /\ UNCHANGED <<commands, explanations, gate>>
           ELSE /\ commands' = g.commands
                /\ explanations' = g.explanations
                /\ safety_result' = report
                /\ shown' = IF report.has_risky THEN show_risky_commands(report.risky_commands) ELSE {}
                /\ all_commands' = IF flow = "run" THEN MergeCommands(report) ELSE g.commands
                /\ prompts' = <<>>
                /\ confirmed' = "none"
                /\ requires_confirmation' = FALSE
                /\ IF confirmOn /\ report.has_risky
                   THEN pc' = "ask_first" /\ outcome' = outcome
                   ELSE pc' = PcAfterGate(FALSE) /\ outcome' = OutcomeAfterGate
    /\ UNCHANGED <<opts, ext, agent, step, executed, declined, impact>>

\* plan (cli.py), process_goal (goal_agent.py), the plan of a ReAct
\* iteration: the steps arrive.
GenerateSteps(cmds) ==
    /\ pc = "start"
    /\ flow \in Stepwise
    /\ IF cmds = <<>>
       THEN /\ Finish(IF flow = "react" THEN "completed" ELSE "error")
            /\ UNCHANGED <<commands, explanations, step>>
       ELSE /\ commands' = cmds
            /\ explanations' = [k \in 1..Len(cmds) |-> k]
            /\ step' = 1
            /\ IF flow = "goal" /\ dry_run THEN Finish("dry_run")
               ELSE IF (flow = "plan" /\ ~dry_run) \/ (flow = "goal" /\ confirmOn)
               THEN pc' = "ask_plan" /\ outcome' = outcome
               ELSE pc' = "step" /\ outcome' = outcome
    /\ UNCHANGED <<opts, ext, llm, agent, gate, executed, declined, impact>>

\* plan: confirm_execution (default no); goal: "Proceed with goal execution?" (default yes).
AnswerPlan(ans) ==
    /\ pc = "ask_plan"
    /\ IF ConfirmAsk(ans, flow = "goal")
       THEN pc' = "step" /\ outcome' = outcome
       ELSE Finish("cancelled")
    /\ UNCHANGED <<opts, ext, llm, agent, commands, explanations, step, gate, executed, declined, impact>>

\* The head of the step loop of execute_plan, _execute_goal_steps and of the
\* action loop of achieve_goal (_act), up to the first prompt or the executor.
StepBegin(rc) ==
    /\ pc = "step"
    /\ IF step > Len(commands)
       THEN /\ Finish("completed")
            /\ UNCHANGED <<step, gate>>
       ELSE IF (flow = "plan" /\ dry_run) \/ (flow = "react" /\ commands[step] = <<>>)
       THEN /\ step' = step + 1
            /\ UNCHANGED <<pc, outcome, gate>>
       ELSE LET report == check_commands(<<commands[step]>>) IN
            /\ all_commands' = <<commands[step]>>
            /\ safety_result' = report
            /\ shown' = IF report.has_risky /\ (flow = "react" => verbose)
                        THEN show_risky_commands(report.risky_commands) ELSE {}
            /\ prompts' = <<>>
            /\ confirmed' = "none"
            /\ requires_confirmation' = (flow = "goal" /\ rc)
            /\ pc' = IF report.has_risky /\ confirmOn THEN "ask_first"
                     ELSE PcAfterGate(flow = "goal" /\ rc)
            /\ UNCHANGED <<step, outcome>>
    /\ UNCHANGED <<opts, ext, llm, agent, commands, explanations, executed, declined, impact>>

\* confirm_risky_execution returns result to the flow.
GateReturns(result) ==
    /\ confirmed' = IF result THEN "yes" ELSE "no"
    /\ declined' = IF result THEN declined ELSE declined \cup {step}
    /\ IF result
       THEN /\ pc' = PcAfterGate(requires_confirmation)
            /\ outcome' = OutcomeAfterGate
            /\ step' = step
       ELSE /\ pc' = PcAfterCancel
            /\ outcome' = CASE flow \in {"run", "chat"} -> "cancelled"
                            [] flow = "plan" -> "aborted"
                            [] OTHER -> outcome
            /\ step' = IF flow = "react" THEN step + 1 ELSE step

\* confirm_risky_execution: the answer to its first prompt.
AnswerFirst(ans) ==
    /\ pc = "ask_first"
    /\ LET hc == HasCritical(safety_result.risky_commands)
           response == ConfirmAsk(ans, FALSE)
       IN  /\ prompts' = Append(prompts, [prompt |-> FirstPrompt(hc), answer |-> ans])
           /\ IF NeedsFinalWarning(hc, response)
              THEN /\ pc' = "ask_final"
                   /\ UNCHANGED <<confirmed, declined, outcome, step>>
              ELSE GateReturns(response)
    /\ UNCHANGED <<opts, ext, llm, agent, commands, explanations, all_commands, safety_result, shown,
                   requires_confirmation, executed, impact>>

\* confirm_risky_execution: the answer to the FINAL WARNING.
AnswerFinal(ans) ==
    /\ pc = "ask_final"
    /\ prompts' = Append(prompts, [prompt |-> "FINAL WARNING", answer |-> ans])
    /\ GateReturns(ConfirmAsk(ans, FALSE))
    /\ UNCHANGED <<opts, ext, llm, agent, commands, explanations, all_commands, safety_result, shown,
                   requires_confirmation, executed, impact>>

\* goal: "Step skipped. Continue?" (default yes) after a declined risky step.
AnswerContinue(ans) ==
    /\ pc = "ask_continue"
    /\ IF ConfirmAsk(ans, TRUE)
       THEN pc' = "step" /\ step' = step + 1 /\ outcome' = outcome
       ELSE Finish("aborted") /\ step' = step
    /\ UNCHANGED <<opts, ext, llm, agent, commands, explanations, gate, executed, declined, impact>>

\* goal: "Execute step N?" (default yes) for a step that requires confirmation.
AnswerStep(ans) ==
    /\ pc = "ask_step"
    /\ IF ConfirmAsk(ans, TRUE)
       THEN pc' = "exec" /\ step' = step
       ELSE pc' = "step" /\ step' = step + 1
    /\ UNCHANGED <<opts, ext, llm, agent, commands, explanations, gate, executed, declined, outcome, impact>>

\* explanations[:n]
Take(s, n) == SubSeq(s, 1, Min(n, Len(s)))

\* The explanations passed to execute_commands with all_commands.
BatchExplanations ==
    CASE flow = "run" -> Take(explanations, Len(all_commands))
      [] flow = "chat" -> explanations
      [] OTHER -> <<explanations[step]>>

\* What one call of execute_commands adds to the record of executed commands.
Ran ==
    LET z == Zip(all_commands, BatchExplanations)
    IN  [k \in 1..Len(z) |-> [batch |-> step, command |-> z[k].command,
                              explanation |-> z[k].explanation, gate |-> confirmed]]

\* The step loop that runs a failed step again by itself.
AfterExecuteRunsAgain(ok) == IF ok THEN "step" ELSE "exec"

\* Where a step loop goes after the execution of a step: goal asks what to
\* do about a failed step unless auto_confirm is set; every other case goes
\* on to the next step.
AfterExecute(ok) == IF flow = "goal" /\ ~ok /\ confirmOn THEN "ask_failure" ELSE "step"

\* executor.execute_commands(all_commands, explanations) and what the flow
\* does with the result; ok: the command succeeded (goal looks at it).
Execute(ok) ==
    /\ pc = "exec"
    /\ executed' = executed \o Ran
    /\ IF flow \in {"run", "chat"}
       THEN Finish("executed") /\ step' = step
       ELSE /\ pc' = AfterExecute(ok)
            /\ step' = IF AfterExecute(ok) = "step" THEN step + 1 ELSE step
            /\ outcome' = outcome
    /\ UNCHANGED <<opts, ext, llm, agent, commands, explanations, gate, declined, impact>>

\* goal: the retry / skip / abort prompt after a failed step (default skip).
AnswerFailure(choice) ==
    /\ pc = "ask_failure"
    /\ IF choice = "retry"
       THEN executed' = executed \o Ran /\ pc' = "step" /\ step' = step + 1 /\ outcome' = outcome
       ELSE IF choice = "abort"
       THEN Finish("aborted") /\ UNCHANGED <<executed, step>>
       ELSE pc' = "step" /\ step' = step + 1 /\ UNCHANGED <<executed, outcome>>
    /\ UNCHANGED <<opts, ext, llm, agent, commands, explanations, gate, declined, impact>>

\* What the command-generation collaborator may do: raise, answer with
\* something that is no JSON object, or with a JSON object of any command
\* list and any number of explanations, bare or inside code-fence markers.
Responses ==
    {Response("raise", "none", "none", <<>>, 0)}
        \cup {Response("ok", body, fence, <<>>, 0) : body \in {"malformed", "not_object"}, fence \in Fences}
        \cup {Response("ok", "object", fence, cmds, nExpl) :
                 fence \in Fences, cmds \in Batches, nExpl \in 0..MaxBatch}

\* The collaborator's answer in run and chat.
GenerateAny ==
    /\ pc = "start"
    /\ flow \in {"run", "chat"}
    /\ \E resp \in Responses : Generate(resp)

\* The collaborator's answer in plan, goal and react: any list of steps.
GenerateStepsAny ==
    /\ pc = "start"
    /\ flow \in Stepwise
    /\ \E cmds \in Batches : GenerateSteps(cmds)

Next ==
    \/ LLMFails
    \/ ChatConversational
    \/ GenerateAny
    \/ GenerateStepsAny
    \/ \E ans \in Answers : AnswerPlan(ans)
    \/ \E rc \in BOOLEAN : StepBegin(rc)
    \/ \E ans \in Answers : AnswerFirst(ans)
    \/ \E ans \in Answers : AnswerFinal(ans)
    \/ \E ans \in Answers : AnswerContinue(ans)
    \/ \E ans \in Answers : AnswerStep(ans)
    \/ \E ok \in BOOLEAN : Execute(ok)
    \/ \E choice \in {"retry", "skip", "abort"} : AnswerFailure(choice)

Spec == Init /\ [][Next]_vars

(***************************************************************************)
(* The checker alone, applied to every command of at most MaxTokens tokens.*)
(***************************************************************************)
InitClassify ==
    /\ flow = "classify"
    /\ confirmOn = TRUE
    /\ dry_run = FALSE
    /\ verbose = TRUE
    /\ pc = "start"
    /\ commands \in {<<c>> : c \in Commands}
    /\ explanations = <<1>>
    /\ step = 0
    /\ all_commands = <<>>
    /\ safety_result = check_commands(<<>>)
    /\ shown = {}
    /\ prompts = <<>>
    /\ confirmed = "none"
    /\ requires_confirmation = FALSE
    /\ executed = <<>>
    /\ declined = {}
    /\ outcome = "none"
    /\ impact = NoImpact
    /\ InitExt

\* analyze_impact(cmd) and check_commands([cmd]).
Classify ==
    /\ pc = "start"
    /\ flow = "classify"
    /\ impact' = analyze_impact(commands[1])
    /\ safety_result' = check_commands(commands)
    /\ pc' = "done"
    /\ UNCHANGED <<opts, ext, llm, agent, commands, explanations, step, all_commands, shown, prompts, confirmed,
                   requires_confirmation, executed, declined, outcome>>

NextClassify == Classify

SpecClassify == InitClassify /\ [][NextClassify]_vars

(***************************************************************************)
(* check_commands alone, applied to every batch of at most MaxBatch of the *)
(* commands of the safety tests.                                           *)
(***************************************************************************)

\* The commands of test_warning_commands and test_mixed_commands.
TestPool == {<<"ls">>,
             <<"chmod", "-R", "755", "directory">>,
             <<"apt", "update">>,
             <<"curl", "http://example.com">>,
             <<"rm", "-rf", "/">>,
             <<"sudo", "apt", "update">>}

TestBatches == UNION {[1..n -> TestPool] : n \in 0..MaxBatch}

InitCheck ==
    /\ flow = "check"
    /\ confirmOn = TRUE
    /\ dry_run = FALSE
    /\ verbose = TRUE
    /\ pc = "start"
    /\ commands \in TestBatches
    /\ explanations = <<>>
    /\ step = 0
    /\ all_commands = <<>>
    /\ safety_result = check_commands(<<>>)
    /\ shown = {}
    /\ prompts = <<>>
    /\ confirmed = "none"
    /\ requires_confirmation = FALSE
    /\ executed = <<>>
    /\ declined = {}
    /\ outcome = "none"
    /\ impact = NoImpact
    /\ InitExt

\* check_commands(commands)
CheckBatch ==
    /\ pc = "start"
    /\ flow = "check"
    /\ safety_result' = check_commands(commands)
    /\ pc' = "done"
    /\ UNCHANGED <<opts, ext, llm, agent, commands, explanations, step, all_commands, shown, prompts, confirmed,
                   requires_confirmation, executed, declined, outcome, impact>>

NextCheck == CheckBatch

SpecCheck == InitCheck /\ [][NextCheck]_vars

(***************************************************************************)
(* CommandExecutor (termai/core/executor.py): execute_commands over a      *)
(* batch, one _execute_single_command per pass of its loop.                *)
(***************************************************************************)

\* What subprocess.run does: the process exits with a return code (negative
\* when a signal killed it), the timeout expires, or another exception is
\* raised (text "e").
ProcessOutcomes ==
    {[kind |-> "exit", returncode |-> c] : c \in {0, 1, -9}}
        \cup {[kind |-> "timeout", returncode |-> 0], [kind |-> "exception", returncode |-> 0]}

\* _execute_single_command where a timeout is reported like any other exception.
execute_single_command_no_timeout(o) ==
    CASE o.kind = "exit" ->
            [return_code |-> o.returncode, stdout |-> "process.stdout", stderr |-> <<"process.stderr">>,
             success |-> (o.returncode = 0), timed_out |-> FALSE]
      [] OTHER ->
            [return_code |-> -1, stdout |-> "", stderr |-> <<"Execution error: ", "e">>,
             success |-> FALSE, timed_out |-> FALSE]

\* _execute_single_command: the dict returned for each outcome of subprocess.run.
execute_single_command(o) ==
    CASE o.kind = "exit" ->
            [return_code |-> o.returncode, stdout |-> "process.stdout", stderr |-> <<"process.stderr">>,
             success |-> (o.returncode = 0), timed_out |-> FALSE]
      [] o.kind = "timeout" ->
            [return_code |-> -1, stdout |-> "", stderr |-> <<"Command timed out after 30 seconds">>,
             success |-> FALSE, timed_out |-> TRUE]
      [] OTHER ->
            [return_code |-> -1, stdout |-> "", stderr |-> <<"Execution error: ", "e">>,
             success |-> FALSE, timed_out |-> FALSE]

\* _is_critical_failure that takes every failure for critical.
is_critical_failure_always(cmd, result) == TRUE

\* _is_critical_failure
is_critical_failure(cmd, result) == FALSE

\* correct_filename_in_command when a file of the working directory matches
\* a file name of the command but for the case: the name is replaced.
correct_filename_in_command(cmd) ==
    [k \in 1..Len(cmd) |-> IF cmd[k] = "file.txt" THEN "File.txt" ELSE cmd[k]]

\* The commands given to the executor.
ExecPool == {<<"ls">>, <<"rm", "file.txt">>}

ExecBatches == UNION {[1..n -> ExecPool] : n \in 0..MaxBatch}

InitExec ==
    /\ flow = "execute"
    /\ confirmOn = TRUE
    /\ dry_run = FALSE
    /\ verbose = TRUE
    /\ pc = "loop"
    /\ commands \in ExecBatches
    /\ explanations \in {[k \in 1..n |-> k] : n \in 0..MaxBatch}
    /\ step = 0
    /\ all_commands = <<>>
    /\ safety_result = check_commands(<<>>)
    /\ shown = {}
    /\ prompts = <<>>
    /\ confirmed = "none"
    /\ requires_confirmation = FALSE
    /\ executed = <<>>
    /\ declined = {}
    /\ outcome = "none"
    /\ impact = NoImpact
    /\ InitExt

\* return {...} of execute_commands
ExecutionResult(res) ==
    [total_commands |-> Len(commands), executed_commands |-> Len(res),
     all_successful |-> \A k \in 1..Len(res) : res[k].return_code = 0, returned |-> TRUE]

\* One pass of the loop of execute_commands over zip(commands, explanations),
\* step being the index i; o: what subprocess.run does, was_corrected: a
\* file name of the command is corrected.  The pass that breaks, and the
\* last one, return.
ExecuteSingle(o, was_corrected) ==
    /\ pc = "loop"
    /\ flow = "execute"
    /\ step < Len(Zip(commands, explanations))
    /\ was_corrected => correct_filename_in_command(commands[step + 1]) # commands[step + 1]
    /\ LET z == Zip(commands, explanations)[step + 1]
           cmd == IF was_corrected THEN correct_filename_in_command(z.command) ELSE z.command
           result == execute_single_command(o)
           entry == [return_code |-> result.return_code, stdout |-> result.stdout,
                     stderr |-> result.stderr, success |-> result.success,
                     timed_out |-> result.timed_out, outcome |-> o.kind,
                     command_index |-> step, command |-> cmd, given |-> z.command,
                     explanation |-> z.explanation]
           res == Append(results, entry)
           stop == (result.return_code # 0 /\ is_critical_failure(cmd, result))
                       \/ step + 1 = Len(Zip(commands, explanations))
       IN  /\ results' = res
           /\ step' = step + 1
           /\ IF stop
              THEN pc' = "done" /\ execution_result' = ExecutionResult(res)
              ELSE pc' = "loop" /\ UNCHANGED execution_result
    /\ UNCHANGED <<opts, llm, agent, commands, explanations, gate, executed, declined, outcome, impact>>

\* execute_commands when zip(commands, explanations) is empty.
ExecuteNone ==
    /\ pc = "loop"
    /\ flow = "execute"
    /\ Len(Zip(commands, explanations)) = 0
    /\ pc' = "done"
    /\ execution_result' = ExecutionResult(results)
    /\ UNCHANGED <<opts, llm, agent, commands, explanations, step, gate, executed, declined, outcome,
                   impact, results>>

NextExec ==
    \/ \E o \in ProcessOutcomes, was_corrected \in BOOLEAN : ExecuteSingle(o, was_corrected)
    \/ ExecuteNone

SpecExec == InitExec /\ [][NextExec]_vars

(***************************************************************************)
(* LLMClient.generate_commands (termai/core/llm.py) alone, applied to      *)
(* everything the collaborator may do.                                     *)
(***************************************************************************)
InitParse ==
    /\ flow = "generate"
    /\ confirmOn = TRUE
    /\ dry_run = FALSE
    /\ verbose = TRUE
    /\ pc = "start"
    /\ commands = <<>>
    /\ explanations = <<>>
    /\ step = 0
    /\ all_commands = <<>>
    /\ safety_result = check_commands(<<>>)
    /\ shown = {}
    /\ prompts = <<>>
    /\ confirmed = "none"
    /\ requires_confirmation = FALSE
    /\ executed = <<>>
    /\ declined = {}
    /\ outcome = "none"
    /\ impact = NoImpact
    /\ results = <<>>
    /\ execution_result = NoResult
    /\ llm_response = NoResponse
    /\ content \in Responses
    /\ InitAgent

\* generate_commands: the call returns.
GenerateCommands ==
    /\ pc = "start"
    /\ flow = "generate"
    /\ llm_response' = generate_commands(content)
    /\ pc' = "done"
    /\ UNCHANGED <<opts, ext, agent, content, commands, explanations, step, gate, executed, declined,
                   outcome, impact>>

NextParse == GenerateCommands

SpecParse == InitParse /\ [][NextParse]_vars

(***************************************************************************)
(* ReActAgent.achieve_goal (termai/core/react_agent.py): the loop of       *)
(* observe, reason, update todos, plan, act, observe.                      *)
(***************************************************************************)

\* Largest --max-iterations the loop is run with.
MaxIterations == 2

\* dict.get(key, default)
Get(d, key, default) == IF key \in DOMAIN d THEN d[key] ELSE default

\* display.confirm_risky_execution: what it returns for the answers given to
\* its first prompt and, if asked, to the FINAL WARNING.
confirm_risky_execution(has_critical, ans1, ans2) ==
    IF NeedsFinalWarning(has_critical, ConfirmAsk(ans1, FALSE))
    THEN ConfirmAsk(ans2, FALSE)
    ELSE ConfirmAsk(ans1, FALSE)

\* The planned actions: a read-only command and a risky one.
ListFiles == [command |-> <<"ls">>, todo_id |-> 1]
RemoveFile == [command |-> <<"rm", "file.txt">>, todo_id |-> 2]

\* _act: the dict returned for an action, report being what
\* safety_checker.check_commands([command]) returns for its command;
\* executed tells whether the executor was called and ran holds its result.
act(action, report, auto_confirm, ans1, ans2, o) ==
    LET result == execute_single_command(o)
        none == [success |-> FALSE, skipped |-> FALSE, exit_code |-> 0, critical_failure |-> FALSE,
                 executed |-> FALSE, ran |-> [return_code |-> 0]]
    IN  IF action.command = <<>> THEN none
        ELSE IF /\ report.has_risky
                /\ ~auto_confirm
                /\ ~confirm_risky_execution(HasCritical(report.risky_commands), ans1, ans2)
        THEN [none EXCEPT !.skipped = TRUE]
        ELSE [success |-> Get(result, "success", FALSE),
              skipped |-> FALSE,
              exit_code |-> Get(result, "exit_code", -1),
              critical_failure |-> ~Get(result, "success", FALSE) /\ Get(result, "exit_code", 0) # 0,
              executed |-> TRUE,
              ran |-> [return_code |-> result.return_code]]

\* _update_todo_list: ret.failed when the call raises or the answer has no
\* todos, else ret.todos are the todos of the answer, completed being
\* "absent" where the answer gives none, else "true" or "false".
update_todo_list(current, ret) ==
    IF ret.failed THEN current
    ELSE [k \in 1..Len(ret.todos) |->
            [id |-> ret.todos[k].id,
             completed |->
                IF ret.todos[k].completed # "absent" THEN ret.todos[k].completed = "true"
                ELSE IF \E m \in 1..Len(current) : current[m].id = ret.todos[k].id
                THEN current[CHOOSE m \in 1..Len(current) :
                                /\ current[m].id = ret.todos[k].id
                                /\ \A n \in 1..(m - 1) : current[n].id # ret.todos[k].id].completed
                ELSE FALSE]]

\* The marking that does not look at the success of the action.
mark_todo_completed_any(todos, acts, res) ==
    [k \in 1..Len(todos) |->
        IF \E m \in 1..Min(Len(acts), Len(res)) : acts[m].todo_id = todos[k].id
        THEN [todos[k] EXCEPT !.completed = TRUE]
        ELSE todos[k]]

\* _mark_todo_completed: for every successful action that carries a todo_id,
\* the first todo of that id is set completed.
mark_todo_completed(todos, acts, res) ==
    [k \in 1..Len(todos) |->
        IF \E m \in 1..Min(Len(acts), Len(res)) :
               /\ res[m].success
               /\ acts[m].todo_id # 0
               /\ acts[m].todo_id = todos[k].id
               /\ \A n \in 1..(k - 1) : todos[n].id # todos[k].id
        THEN [todos[k] EXCEPT !.completed = TRUE]
        ELSE todos[k]]

\* What the reasoning collaborator may answer (a failed call counts as the
\* answer with the three flags false).
Reasonings ==
    {[goal_achieved |-> a, goal_impossible |-> i, update_todo_list |-> FALSE] : a, i \in BOOLEAN}
        \cup {[goal_achieved |-> FALSE, goal_impossible |-> FALSE, update_todo_list |-> TRUE]}

\* What the todo-update collaborator may answer.
NoUpdate == [failed |-> TRUE, todos |-> <<>>]
TodoUpdates ==
    {NoUpdate,
     [failed |-> FALSE, todos |-> <<[id |-> 1, completed |-> "absent"], [id |-> 3, completed |-> "false"]>>],
     [failed |-> FALSE, todos |-> <<[id |-> 1, completed |-> "false"]>>]}

\* What the planning collaborator may answer (a failed call counts as the
\* answer with no actions).
Plans ==
    {[no_action_needed |-> TRUE, actions |-> <<ListFiles>>],
     [no_action_needed |-> FALSE, actions |-> <<>>],
     [no_action_needed |-> FALSE, actions |-> <<ListFiles, RemoveFile>>]}

\* What subprocess.run does to an action's command.
ActOutcomes == {o \in ProcessOutcomes : o.kind = "timeout" \/ o.returncode \in {0, 1}}

\* The todo lists _create_todo_list may return: the collaborator's, or the
\* fallback when the call fails.
InitialTodos ==
    {<<[id |-> 1, completed |-> FALSE], [id |-> 2, completed |-> FALSE]>>,
     <<[id |-> 1, completed |-> FALSE]>>}

\* achieve_goal up to the loop: state reset, initial observation, todo list.
InitReact ==
    /\ flow = "achieve_goal"
    /\ confirmOn \in BOOLEAN
    /\ dry_run = FALSE
    /\ verbose = TRUE
    /\ pc = "loop"
    /\ commands = <<>>
    /\ explanations = <<>>
    /\ step = 0
    /\ all_commands = <<>>
    /\ safety_result = check_commands(<<>>)
    /\ shown = {}
    /\ prompts = <<>>
    /\ confirmed = "none"
    /\ requires_confirmation = FALSE
    /\ executed = <<>>
    /\ declined = {}
    /\ outcome = "none"
    /\ impact = NoImpact
    /\ results = <<>>
    /\ execution_result = NoResult
    /\ llm_response = NoResponse
    /\ content = NoContent
    /\ max_iterations \in 0..MaxIterations
    /\ current_iteration = 0
    /\ todo_list \in InitialTodos
    /\ observation_history = <<[iteration |-> 0, type |-> "initial"]>>
    /\ action_history = <<>>
    /\ reasoning_history = <<>>
    /\ goal_achieved = FALSE
    /\ goal_impossible = FALSE
    /\ actions = <<>>
    /\ action_results = <<>>
    /\ calls = <<>>
    /\ final = NoFinal
    /\ invocation = 1

\* A phase of iteration it is entered.
Call(phase, it) == calls' = Append(calls, [phase |-> phase, iteration |-> it])

rest == <<opts, ext, llm, commands, explanations, step, gate, executed, declined, outcome, impact>>

\* The while condition with <= for <.
LoopConditionOffByOne == current_iteration <= max_iterations /\ ~goal_achieved /\ ~goal_impossible

\* The while condition of the main loop.
LoopCondition == current_iteration < max_iterations /\ ~goal_achieved /\ ~goal_impossible

\* The while condition holds: the iteration starts with its observation.
IterationBegin ==
    /\ pc = "loop"
    /\ LoopCondition
    /\ current_iteration' = current_iteration + 1
    /\ observation_history' =
           Append(observation_history, [iteration |-> current_iteration + 1, type |-> "before_action"])
    /\ Call("before_action", current_iteration + 1)
    /\ pc' = "reason"
    /\ UNCHANGED <<rest, max_iterations, todo_list, action_history, reasoning_history, goal_achieved,
                   goal_impossible, actions, action_results, final>>

\* where a break after the reasoning leads to
AfterBreakGoesOn == "update"

\* where a break after the reasoning leads to: out of the loop
AfterBreak == "return"

\* _reason answers; goal_achieved, then goal_impossible, break out of the loop.
Reason(reasoning) ==
    /\ pc = "reason"
    /\ reasoning_history' = Append(reasoning_history, reasoning)
    /\ Call("reason", current_iteration)
    /\ IF reasoning.goal_achieved
       THEN goal_achieved' = TRUE /\ pc' = AfterBreak /\ UNCHANGED goal_impossible
       ELSE IF reasoning.goal_impossible
       THEN goal_impossible' = TRUE /\ pc' = AfterBreak /\ UNCHANGED goal_achieved
       ELSE pc' = "update" /\ UNCHANGED <<goal_achieved, goal_impossible>>
    /\ UNCHANGED <<rest, max_iterations, current_iteration, todo_list, observation_history,
                   action_history, actions, action_results, final>>

\* The plan that skips the Act phase only when its action list is empty.
NoActionsOnlyEmpty(plan) == plan.actions = <<>>

\* The plan declares no_action_needed, or has no actions.
NoActions(plan) == plan.no_action_needed \/ plan.actions = <<>>

\* The todo list is updated if the reasoning asked for it, and _plan answers;
\* without actions the loop continues with the next iteration.
Plan(ret, plan) ==
    /\ pc = "update"
    /\ LET reasoning == reasoning_history[Len(reasoning_history)]
           called == IF reasoning.update_todo_list
                     THEN <<[phase |-> "update", iteration |-> current_iteration]>> ELSE <<>>
       IN  /\ todo_list' = IF reasoning.update_todo_list THEN update_todo_list(todo_list, ret)
                           ELSE todo_list
           /\ ~reasoning.update_todo_list => ret = NoUpdate
           /\ calls' = calls \o called \o <<[phase |-> "plan", iteration |-> current_iteration,
                                              no_action_needed |-> plan.no_action_needed,
                                              actions |-> Len(plan.actions)]>>
    /\ IF NoActions(plan)
       THEN pc' = "loop" /\ UNCHANGED <<actions, action_results>>
       ELSE pc' = "act" /\ actions' = plan.actions /\ action_results' = <<>>
    /\ UNCHANGED <<rest, max_iterations, current_iteration, observation_history, action_history,
                   reasoning_history, goal_achieved, goal_impossible, final>>

\* The action loop left without the observation that follows it.
AfterActionsSkipsObserve == "loop"

\* Where the action loop leads, whether it ends or breaks: to the
\* after_action observation.
AfterActions == "observe"

\* One pass of the loop over the planned actions: _act, and the break on a
\* critical failure.
Act ==
    /\ pc = "act"
    /\ \E report \in {check_commands(<<actions[Len(action_results) + 1].command>>)} :
       \E ans1, ans2 \in Answers, o \in ActOutcomes :
       LET action == actions[Len(action_results) + 1]
           action_result == act(action, report, ~confirmOn, ans1, ans2, o)
       IN  /\ action_results' = Append(action_results, action_result)
           /\ action_history' = Append(action_history, [iteration |-> current_iteration,
                                                        action |-> action, result |-> action_result])
           /\ Call("act", current_iteration)
           /\ IF action_result.critical_failure
              THEN goal_impossible' = TRUE /\ pc' = AfterActions
              ELSE /\ UNCHANGED goal_impossible
                   /\ pc' = IF Len(action_results) + 1 = Len(actions) THEN AfterActions ELSE "act"
    /\ UNCHANGED <<rest, max_iterations, current_iteration, todo_list, observation_history,
                   reasoning_history, goal_achieved, actions, final>>

\* The observation after the actions, and the marking of the todos.
ObserveAfter ==
    /\ pc = "observe"
    /\ observation_history' =
           Append(observation_history, [iteration |-> current_iteration, type |-> "after_action"])
    /\ todo_list' = mark_todo_completed(todo_list, actions, action_results)
    /\ calls' = calls \o <<[phase |-> "after_action", iteration |-> current_iteration],
                           [phase |-> "mark", iteration |-> current_iteration]>>
    /\ pc' = "loop"
    /\ UNCHANGED <<rest, max_iterations, current_iteration, action_history, reasoning_history,
                   goal_achieved, goal_impossible, actions, action_results, final>>

\* The while condition fails.
LoopEnd ==
    /\ pc = "loop"
    /\ ~LoopCondition
    /\ pc' = "return"
    /\ UNCHANGED <<rest, agent>>

\* The summary call and the dict returned.
Return ==
    /\ pc = "return"
    /\ final' = [status |-> IF goal_achieved THEN "achieved"
                            ELSE IF goal_impossible THEN "impossible" ELSE "max_iterations",
                 iterations |-> current_iteration,
                 goal_achieved |-> goal_achieved,
                 total_actions |-> Len(action_history)]
    /\ pc' = "done"
    /\ UNCHANGED <<rest, max_iterations, current_iteration, todo_list, observation_history,
                   action_history, reasoning_history, goal_achieved, goal_impossible, actions,
                   action_results, calls>>

NextReact ==
    \/ IterationBegin
    \/ \E reasoning \in Reasonings : Reason(reasoning)
    \/ \E ret \in TodoUpdates, plan \in Plans : Plan(ret, plan)
    \/ Act
    \/ ObserveAfter
    \/ LoopEnd
    \/ Return

SpecReact == InitReact /\ [][NextReact]_vars

(***************************************************************************)
(* ReActAgent: achieve_goal called again and again on one agent, as the    *)
(* shell does, with a keyboard interrupt possible at every point of a call. *)
(***************************************************************************)
MaxCalls == 2
MaxCallIterations == 1

\* The agent is constructed and achieve_goal has not been called.
InitCalls ==
    /\ flow = "achieve_goal"
    /\ confirmOn = TRUE
    /\ dry_run = FALSE
    /\ verbose = TRUE
    /\ pc = "idle"
    /\ commands = <<>>
    /\ explanations = <<>>
    /\ step = 0
    /\ all_commands = <<>>
    /\ safety_result = check_commands(<<>>)
    /\ shown = {}
    /\ prompts = <<>>
    /\ confirmed = "none"
    /\ requires_confirmation = FALSE
    /\ executed = <<>>
    /\ declined = {}
    /\ outcome = "none"
    /\ impact = NoImpact
    /\ InitExt

\* The reset that leaves the action history of the earlier call in place.
ResetStateKeepsActions ==
    [current_iteration |-> 0, observation_history |-> <<>>, action_history |-> action_history,
     reasoning_history |-> <<>>, todo_list |-> <<>>]

\* The agent state assigned at the start of achieve_goal.
ResetState ==
    [current_iteration |-> 0, observation_history |-> <<>>, action_history |-> <<>>,
     reasoning_history |-> <<>>, todo_list |-> <<>>]

\* achieve_goal is called (again): the agent state is reset; the locals and
\* the result belong to the new call.
AchieveGoal(N, auto_confirm) ==
    /\ pc \in {"idle", "done", "raised"}
    /\ invocation < MaxCalls
    /\ invocation' = invocation + 1
    /\ confirmOn' = ~auto_confirm
    /\ max_iterations' = N
    /\ current_iteration' = ResetState.current_iteration
    /\ observation_history' = ResetState.observation_history
    /\ action_history' = ResetState.action_history
    /\ reasoning_history' = ResetState.reasoning_history
    /\ todo_list' = ResetState.todo_list
    /\ goal_achieved' = FALSE
    /\ goal_impossible' = FALSE
    /\ actions' = <<>>
    /\ action_results' = <<>>
    /\ calls' = <<>>
    /\ final' = NoFinal
    /\ pc' = "observe_initial"
    /\ UNCHANGED <<flow, dry_run, verbose, ext, llm, commands, explanations, step, gate, executed,
                   declined, outcome, impact>>

\* The initial observation.
ObserveInitial ==
    /\ pc = "observe_initial"
    /\ observation_history' = Append(observation_history, [iteration |-> 0, type |-> "initial"])
    /\ pc' = "create_todo"
    /\ UNCHANGED <<rest, max_iterations, current_iteration, todo_list, action_history,
                   reasoning_history, goal_achieved, goal_impossible, actions, action_results,
                   calls, final>>

\* _create_todo_list answers, and the loop flags are cleared.
CreateTodoList(todos) ==
    /\ pc = "create_todo"
    /\ todo_list' = todos
    /\ goal_achieved' = FALSE
    /\ goal_impossible' = FALSE
    /\ pc' = "loop"
    /\ UNCHANGED <<rest, max_iterations, current_iteration, observation_history, action_history,
                   reasoning_history, actions, action_results, calls, final>>

\* The points of achieve_goal inside its try block.
InTry == {"loop", "reason", "update", "act", "observe"}

\* The points of achieve_goal outside its try block.
OutOfTry == {"observe_initial", "create_todo", "return"}

\* A KeyboardInterrupt inside the try block: the handler returns.
Interrupt ==
    /\ pc \in InTry
    /\ final' = [status |-> "interrupted", iterations |-> current_iteration]
    /\ pc' = "done"
    /\ UNCHANGED <<rest, max_iterations, current_iteration, todo_list, observation_history,
                   action_history, reasoning_history, goal_achieved, goal_impossible, actions,
                   action_results, calls>>

\* A KeyboardInterrupt outside the try block: it leaves achieve_goal.
InterruptPropagates ==
    /\ pc \in OutOfTry
    /\ pc' = "raised"
    /\ UNCHANGED <<rest, agent>>

NextCalls ==
    \/ \E N \in 0..MaxCallIterations, auto_confirm \in BOOLEAN : AchieveGoal(N, auto_confirm)
    \/ ObserveInitial
    \/ \E todos \in InitialTodos : CreateTodoList(todos)
    \/ NextReact
    \/ Interrupt
    \/ InterruptPropagates

SpecCalls == InitCalls /\ [][NextCalls]_vars

(***************************************************************************)
(* Properties.                                                             *)
(***************************************************************************)

\* check_commands calls the command risky.
Risky(cmd) == check_commands(<<cmd>>).has_risky

\* The commands of the collaborators' answers that check_commands classifies
\* as risky (every executed command is one of Pool).
RiskyPool == {cmd \in Pool : Risky(cmd)}

\* C1: with confirmation enabled, in every flow, a command that
\* check_commands classifies as risky reaches execute_commands only after
\* confirm_risky_execution returned true for its batch, and no command of a
\* batch whose confirmation was answered negatively is ever executed.
C1_RiskyNeedsConfirmation ==
    confirmOn =>
        /\ \A k \in 1..Len(executed) :
               /\ executed[k].command \in Pool
               /\ executed[k].command \in RiskyPool => executed[k].gate = "yes"
        /\ \A k \in 1..Len(executed) : executed[k].batch \notin declined

\* C1 witness: one risky batch was declined and a later risky one, confirmed, ran.
C1_Witness ==
    /\ confirmOn
    /\ declined # {}
    /\ \E k \in 1..Len(executed) : executed[k].command \in RiskyPool /\ executed[k].gate = "yes"

\* C2: for a batch with a CRITICAL command confirm_risky_execution asks the
\* first warning and then the FINAL WARNING, returns true only when both are
\* answered yes, returns false without the second prompt when the first
\* answer is no or empty, returns false when the second is, and then no
\* command of the batch is executed.
C2_DoubleConfirmation ==
    HasCritical(safety_result.risky_commands) =>
        /\ Len(prompts) <= 2
        /\ Len(prompts) >= 1 => prompts[1].prompt = "ABSOLUTELY SURE"
        /\ Len(prompts) = 2 => prompts[2].prompt = "FINAL WARNING" /\ prompts[1].answer = "yes"
        /\ pc = "ask_final" => Len(prompts) = 1 /\ prompts[1].answer = "yes" /\ confirmed = "none"
        /\ confirmed = "yes" =>
               Len(prompts) = 2 /\ prompts[1].answer = "yes" /\ prompts[2].answer = "yes"
        /\ (Len(prompts) >= 1 /\ prompts[1].answer # "yes") => Len(prompts) = 1 /\ confirmed = "no"
        /\ (Len(prompts) = 2 /\ prompts[2].answer # "yes") => confirmed = "no"
        /\ confirmed = "no" =>
               /\ declined # {}
               /\ \A k \in 1..Len(executed) : executed[k].batch \notin declined
               /\ pc # "exec"

\* C2 witness: a batch with a critical and another command, first answer
\* yes, FINAL WARNING answered no, flow over.
C2_Witness ==
    /\ HasCritical(safety_result.risky_commands)
    /\ Len(all_commands) > 1
    /\ Len(prompts) = 2
    /\ prompts[2].answer = "no"
    /\ confirmed = "no"
    /\ pc = "done"
    /\ executed = <<>>

Checked == IF flow \in {"run", "chat", "classify", "check"} THEN commands ELSE all_commands

\* The (0-based) indexes recorded in a list of risky entries.
RiskyIndexes(risky) == {risky[k].index : k \in 1..Len(risky)}

RECURSIVE Others(_, _, _)
\* The commands of cmds, from position k on, whose index is not in idx.
Others(cmds, idx, k) ==
    IF k > Len(cmds) THEN <<>>
    ELSE IF (k - 1) \in idx THEN Others(cmds, idx, k + 1)
    ELSE <<cmds[k]>> \o Others(cmds, idx, k + 1)

\* safety_result is the report of the batch the flow has checked.
Reported == pc \notin {"start"} /\ Checked # <<>> /\ safety_result.total_commands > 0

\* C4: check_commands puts each command of the batch in exactly one of
\* safe_commands and risky_commands: the lengths add up to the length of the
\* batch, which is total_commands, the risky entries carry distinct indexes
\* of the batch and their own command, and safe_commands is the batch
\* without those indexes.
C4_Partition ==
    Reported =>
        LET r == safety_result
            idx == RiskyIndexes(r.risky_commands)
        IN  /\ Len(r.safe_commands) + Len(r.risky_commands) = Len(Checked)
            /\ r.total_commands = Len(Checked)
            /\ Cardinality(idx) = Len(r.risky_commands)
            /\ \A k \in 1..Len(r.risky_commands) :
                   /\ r.risky_commands[k].index \in 0..(Len(Checked) - 1)
                   /\ r.risky_commands[k].command = Checked[r.risky_commands[k].index + 1]
            /\ r.safe_commands = Others(Checked, idx, 1)

\* C4 witness: the report of a batch with safe and risky commands.
C4_Witness ==
    /\ Reported
    /\ Len(safety_result.safe_commands) >= 1
    /\ Len(safety_result.risky_commands) >= 2
    /\ Len(Checked) = Len(safety_result.safe_commands) + Len(safety_result.risky_commands)

\* The pattern list of a severity level.
LevelPatterns(l) ==
    CASE l = 5 -> level5_patterns
      [] l = 4 -> level4_patterns
      [] l = 3 -> level3_patterns
      [] l = 2 -> level2_patterns

\* The levels among 2..5 one of whose patterns is found in cmd.
MatchedLevels(cmd) == {l \in 2..5 : AnyMatch(LevelPatterns(l), cmd)}

Highest(S) == CHOOSE l \in S : \A m \in S : m <= l

\* The command has been classified.
Classified == flow = "classify" /\ pc = "done"

\* C5: the risk score is the highest of the levels 5, 4, 3, 2 one of whose
\* patterns matches the command; a command matching a level-5 pattern is
\* CRITICAL whatever lower-level pattern it matches too.
C5_HighestLevelWins ==
    Classified =>
        LET cmd == commands[1]
            matched == MatchedLevels(cmd)
        IN  /\ matched # {} => impact.risk_score = Highest(matched)
            /\ 5 \in matched =>
                   /\ impact.risk_level = "CRITICAL"
                   /\ Len(safety_result.risky_commands) = 1
                   /\ safety_result.risky_commands[1].risk_level = "CRITICAL"
                   /\ safety_result.risky_commands[1].risk_score = 5

\* C5 witness: "sudo rm -rf /" classified, level-5 and level-3 patterns both match.
C5_Witness ==
    /\ Classified
    /\ commands[1] = <<"sudo", "rm", "-rf", "/">>
    /\ {3, 5} \subseteq MatchedLevels(commands[1])
    /\ impact.risk_level = "CRITICAL"

\* C6 as claimed: a command is in risky_commands exactly when its risk score
\* is 2 or more.
C6_RiskyIffScoreAtLeast2 ==
    Classified =>
        /\ safety_result.has_risky <=> impact.risk_score >= 2
        /\ \A k \in 1..Len(safety_result.risky_commands) :
               safety_result.risky_commands[k].risk_score >= 2

\* C6 amended: a command is in risky_commands exactly when a dangerous
\* pattern matches it; every command scoring 3 or more and every command
\* matching a level-2 pattern is risky, a command that is not risky scores 1
\* or 2 (2 also by default), and a risky entry carries the command's score,
\* which is between 1 and 5.
C6_RiskyIffDangerousPattern ==
    Classified =>
        LET cmd == commands[1] IN
        /\ safety_result.has_risky <=> (\E k \in 1..Len(dangerous_patterns) : Search(dangerous_patterns[k].pat, cmd))
        /\ impact.risk_score >= 3 => safety_result.has_risky
        /\ MatchedLevels(cmd) # {} => safety_result.has_risky
        /\ ~safety_result.has_risky => impact.risk_score \in {1, 2} /\ safety_result.safe_commands = <<cmd>>
        /\ \A k \in 1..Len(safety_result.risky_commands) :
               /\ safety_result.risky_commands[k].risk_score = impact.risk_score
               /\ safety_result.risky_commands[k].risk_score \in 1..5

\* C6 witness: "sudo ls" is classified risky with score 3.
C6_Witness ==
    /\ Classified
    /\ commands[1] = <<"sudo", "ls">>
    /\ impact.risk_score = 3
    /\ safety_result.has_risky

\* The 15 keywords of the read-only allowlist the claim names.
Allowlist == SubSeq(read_only_patterns, 1, 15)

\* C9: a command with a read-only allowlist keyword and no dangerous
\* pattern scores 1 and is in safe_commands, not in risky_commands.
C9_ReadOnlySafe ==
    Classified =>
        LET cmd == commands[1] IN
        (AnyMatch(Allowlist, cmd) /\ Hits(dangerous_patterns, cmd) = {}) =>
            /\ impact.risk_score = 1
            /\ safety_result.safe_commands = <<cmd>>
            /\ safety_result.risky_commands = <<>>

\* C9 witness: "ls file.txt /" classified safe with score 1.
C9_Witness ==
    /\ Classified
    /\ commands[1] = <<"ls", "file.txt", "/">>
    /\ AnyMatch(Allowlist, commands[1])
    /\ Hits(dangerous_patterns, commands[1]) = {}
    /\ impact.risk_score = 1
    /\ safety_result.safe

\* C10 as claimed: every risky entry has a non-empty reason and a risk_level
\* among CRITICAL, HIGH, MEDIUM.
C10_ThreeLevels ==
    Classified =>
        \A k \in 1..Len(safety_result.risky_commands) :
            /\ safety_result.risky_commands[k].reason # ""
            /\ safety_result.risky_commands[k].risk_level \in {"CRITICAL", "HIGH", "MEDIUM"}

\* C10 amended: every risky entry has a non-empty reason and a risk_level
\* among CRITICAL, HIGH, MEDIUM-HIGH, MEDIUM, LOW.
C10_FiveLevels ==
    Classified =>
        \A k \in 1..Len(safety_result.risky_commands) :
            /\ safety_result.risky_commands[k].reason # ""
            /\ safety_result.risky_commands[k].risk_level \in {"CRITICAL", "HIGH", "MEDIUM-HIGH", "MEDIUM", "LOW"}

\* C10 witness: a risky entry of level MEDIUM-HIGH, with its reason.
C10_Witness ==
    /\ Classified
    /\ Len(safety_result.risky_commands) = 1
    /\ safety_result.risky_commands[1].risk_level = "MEDIUM-HIGH"
    /\ safety_result.risky_commands[1].reason = "HIGH: Sudo commands require elevated privileges"

\* C7: in run the list handed to the executor is the generated sequence,
\* position by position, and each command runs with the explanation
\* generated at its own index.
C7_OrderPreserved ==
    (flow = "run" /\ pc \in {"ask_first", "ask_final", "exec", "done"} /\ commands # <<>>) =>
        /\ all_commands = commands
        /\ outcome = "executed" =>
               /\ Len(executed) = Len(commands)
               /\ \A k \in 1..Len(executed) :
                      /\ executed[k].command = commands[k]
                      /\ executed[k].explanation = explanations[k]

\* C7 witness: a confirmed batch with a risky command before a safe one ran.
C7_Witness ==
    /\ flow = "run"
    /\ outcome = "executed"
    /\ confirmed = "yes"
    /\ Len(executed) >= 3
    /\ Risky(commands[1])
    /\ ~Risky(commands[2])
    /\ Risky(commands[3])

\* C8: when a prompt of confirm_risky_execution is asked, every risky
\* command of the batch has been displayed with its reason and level.
C8_RiskyShownBeforePrompt ==
    pc \in {"ask_first", "ask_final"} =>
        \A k \in 1..Len(safety_result.risky_commands) :
            \E panel \in shown :
                /\ panel.index = safety_result.risky_commands[k].index
                /\ panel.command = safety_result.risky_commands[k].command
                /\ panel.reason = safety_result.risky_commands[k].reason
                /\ panel.level = safety_result.risky_commands[k].risk_level

\* check_commands has reported on the batch in commands.
BatchChecked == flow = "check" /\ pc = "done"

\* The commands of test_warning_commands: each matches a warning pattern.
WarningCommands == {cmd \in TestPool \ {<<"sudo", "apt", "update">>} : has_command_warning(cmd).has}

\* The elements of a sequence.
Range(s) == {s[k] : k \in 1..Len(s)}

\* C11: a batch made only of commands that match a warning pattern
\* (chmod -R, apt, curl) is reported safe with a non-empty warnings list, and
\* such a command is among the safe commands of any batch it is in.
C11_WarningsDoNotBlock ==
    BatchChecked =>
        /\ (commands # <<>> /\ Range(commands) \subseteq WarningCommands) =>
               safety_result.safe /\ safety_result.warnings # <<>>
        /\ \A k \in 1..Len(commands) :
               commands[k] \in WarningCommands => commands[k] \in Range(safety_result.safe_commands)

\* C12: safe is true exactly when risky_commands is empty and has_risky is
\* its negation, whatever the warnings; every warnings entry carries the
\* index and text of a command of the batch that is in safe_commands and
\* not in risky_commands, and a command classified risky has no warnings
\* entry even when a warning pattern matches it.
C12_SafeIffNoRisky ==
    BatchChecked =>
        LET r == safety_result IN
        /\ r.safe <=> (r.risky_commands = <<>>)
        /\ r.has_risky <=> ~r.safe
        /\ \A k \in 1..Len(r.warnings) :
               /\ r.warnings[k].index \in 0..(Len(commands) - 1)
               /\ r.warnings[k].command = commands[r.warnings[k].index + 1]
               /\ r.warnings[k].command \in Range(r.safe_commands)
               /\ r.warnings[k].index \notin RiskyIndexes(r.risky_commands)
               /\ r.warnings[k].warning = has_command_warning(r.warnings[k].command).warning
        /\ \A k \in 1..Len(commands) :
               is_command_risky(commands[k]).risky =>
                   \A w \in 1..Len(r.warnings) : r.warnings[w].index # k - 1

\* C12 witness: a batch that is not safe, with a warnings entry for a safe
\* command and a risky command that a warning pattern matches.
C12_Witness ==
    /\ BatchChecked
    /\ ~safety_result.safe
    /\ safety_result.warnings # <<>>
    /\ \E k \in 1..Len(commands) :
           is_command_risky(commands[k]).risky /\ has_command_warning(commands[k]).has

\* C13: _execute_single_command returns a result for every outcome of
\* subprocess.run: for an exit, success is (return_code = 0) and timed_out is
\* false; for a timeout, success false, return_code -1, timed_out true and
\* the "timed out" text in stderr; for any other exception, success false,
\* return_code -1, timed_out false and the exception text in stderr.
C13_SingleCommandResult ==
    flow = "execute" =>
        /\ Len(results) = step
        /\ \A k \in 1..Len(results) :
               LET r == results[k] IN
               CASE r.outcome = "exit" ->
                        /\ r.success <=> (r.return_code = 0)
                        /\ ~r.timed_out
                 [] r.outcome = "timeout" ->
                        /\ ~r.success
                        /\ r.return_code = -1
                        /\ r.timed_out
                        /\ r.stderr = <<"Command timed out after 30 seconds">>
                 [] OTHER ->
                        /\ ~r.success
                        /\ r.return_code = -1
                        /\ ~r.timed_out
                        /\ r.stderr = <<"Execution error: ", "e">>

\* C13 witness: a batch in which one command timed out, one raised another
\* exception and one exited with a non-zero code.
C13_Witness ==
    /\ flow = "execute"
    /\ \E k \in 1..Len(results) : results[k].outcome = "timeout" /\ results[k].timed_out
    /\ \E k \in 1..Len(results) : results[k].outcome = "exception" /\ results[k].return_code = -1
    /\ \E k \in 1..Len(results) : results[k].outcome = "exit" /\ ~results[k].success

\* C14: given a batch with an explanation for each command, execute_commands
\* runs the commands in list order, each once, whatever the earlier ones
\* returned: result i has command_index i and is the result of command i,
\* the call returns only after the last command, executed_commands equals
\* total_commands, and all_successful is true exactly when every result has
\* return_code 0.
C14_SequentialAllExecuted ==
    (flow = "execute" /\ Len(explanations) >= Len(commands)) =>
        /\ Len(results) = step
        /\ step <= Len(commands)
        /\ \A k \in 1..Len(results) :
               /\ results[k].command_index = k - 1
               /\ results[k].given = commands[k]
               /\ results[k].explanation = explanations[k]
        /\ (pc = "done") <=> execution_result.returned
        /\ pc = "done" =>
               /\ step = Len(commands)
               /\ execution_result.total_commands = Len(commands)
               /\ execution_result.executed_commands = execution_result.total_commands
               /\ execution_result.all_successful <=>
                      \A k \in 1..Len(results) : results[k].return_code = 0

\* C14 witness: a batch of three whose first command timed out and whose
\* second raised; the third ran and succeeded, and the call returned.
C14_Witness ==
    /\ flow = "execute"
    /\ pc = "done"
    /\ Len(commands) = 3
    /\ Len(explanations) = 3
    /\ Len(results) = 3
    /\ results[1].outcome = "timeout"
    /\ results[2].outcome = "exception"
    /\ results[3].success
    /\ execution_result.executed_commands = 3
    /\ ~execution_result.all_successful

\* The command-generation collaborator failed: the API call raised, or the
\* response is no JSON.
CollaboratorFailed == content.api = "raise" \/ (content.api = "ok" /\ content.body = "malformed")

\* C15: in run and chat, when the command-generation collaborator fails,
\* generate_commands returns a non-empty error with empty commands and
\* explanations, and the flow ends with an error, no confirmation asked and
\* no command executed.
C15_CollaboratorFailureNoExecution ==
    (flow \in {"run", "chat"} /\ CollaboratorFailed) =>
        /\ llm_response.error # ""
        /\ llm_response.commands = <<>>
        /\ llm_response.explanations = <<>>
        /\ pc = "done"
        /\ outcome = "error"
        /\ prompts = <<>>
        /\ confirmed = "none"
        /\ executed = <<>>

\* C15 witness: chat after an API call that raised.
C15_Witness ==
    /\ flow = "chat"
    /\ content.api = "raise"
    /\ llm_response.error = "Failed to generate commands"
    /\ outcome = "error"

\* generate_commands has returned for the response in content.
Generated == flow = "generate" /\ pc = "done"

\* The response is a well-formed JSON object, not wrapped.
WellFormed == content.api = "ok" /\ content.body = "object" /\ content.fence = "none"

\* C16: for a well-formed JSON response generate_commands returns no
\* error, as many explanations as commands, and all the generated commands,
\* whichever of the two lists of the response is the longer.
C16_LengthsRepaired ==
    (Generated /\ WellFormed) =>
        /\ llm_response.error = ""
        /\ Len(llm_response.commands) = Len(llm_response.explanations)
        /\ llm_response.commands = content.commands

\* C17: a JSON object wrapped in code-fence markers yields what the same
\* object yields unwrapped, and only a response that is no JSON yields the
\* invalid-JSON error.
C17_FencesTolerated ==
    (Generated /\ content.api = "ok") =>
        /\ content.body = "object" =>
               llm_response = generate_commands([content EXCEPT !.fence = "none"])
        /\ llm_response.error = "Invalid JSON response" => content.body = "malformed"

\* achieve_goal has returned.
Returned == flow = "achieve_goal" /\ pc = "done"

IsAct(c) == c.phase = "act"

\* action_history holds the actions attempted, one entry per _act call, each
\* under the iteration of the call.
HistoryIsAttempts ==
    LET attempts == SelectSeq(calls, IsAct) IN
    /\ Len(action_history) = Len(attempts)
    /\ \A k \in 1..Len(attempts) : action_history[k].iteration = attempts[k].iteration

\* C18 as stated: when the reasoning collaborator never answered
\* goal_achieved, achieve_goal returns status max_iterations after exactly
\* max_iterations iterations, with action_history holding the actions
\* attempted, and current_iteration never exceeds max_iterations.
C18_MaxIterationsUnlessAchieved ==
    flow = "achieve_goal" =>
        /\ current_iteration <= max_iterations
        /\ (Returned /\ \A k \in 1..Len(reasoning_history) : ~reasoning_history[k].goal_achieved) =>
               /\ final.status = "max_iterations"
               /\ final.iterations = max_iterations
               /\ HistoryIsAttempts

\* C18: when the reasoning collaborator never answered goal_achieved nor
\* goal_impossible, achieve_goal returns status max_iterations after exactly
\* max_iterations iterations, each with one reasoning, action_history holds
\* exactly the actions attempted in them, and current_iteration never
\* exceeds max_iterations.
C18_MaxIterations ==
    flow = "achieve_goal" =>
        /\ current_iteration <= max_iterations
        /\ HistoryIsAttempts
        /\ (Returned /\ \A k \in 1..Len(reasoning_history) :
                            /\ ~reasoning_history[k].goal_achieved
                            /\ ~reasoning_history[k].goal_impossible) =>
               /\ final.status = "max_iterations"
               /\ final.iterations = max_iterations
               /\ current_iteration = max_iterations
               /\ Len(reasoning_history) = max_iterations
               /\ final.total_actions = Len(action_history)
               /\ \A k \in 1..Len(action_history) : action_history[k].iteration \in 1..max_iterations

\* C18 witness: a call with a budget of two iterations returned
\* max_iterations after two iterations in which actions were attempted.
C18_Witness ==
    /\ Returned
    /\ max_iterations = 2
    /\ final.status = "max_iterations"
    /\ final.iterations = 2
    /\ \E k \in 1..Len(action_history) : action_history[k].iteration = 1
    /\ \E k \in 1..Len(action_history) : action_history[k].iteration = 2

\* C19: once the reasoning of an iteration answers goal_achieved or
\* goal_impossible, that iteration is the last: it has no todo update, no
\* plan, no action, no after_action observation and no todo marking, the
\* loop is left, and the status returned is achieved for goal_achieved,
\* else impossible.
C19_ImmediateTermination ==
    flow = "achieve_goal" =>
        \A k \in 1..Len(reasoning_history) :
            (reasoning_history[k].goal_achieved \/ reasoning_history[k].goal_impossible) =>
                /\ k = Len(reasoning_history)
                /\ current_iteration = k
                /\ pc \in {"return", "done"}
                /\ \A c \in 1..Len(calls) :
                       calls[c].iteration = k => calls[c].phase \in {"before_action", "reason"}
                /\ \A a \in 1..Len(action_history) : action_history[a].iteration < k
                /\ \A o \in 1..Len(observation_history) :
                       observation_history[o].iteration = k =>
                           observation_history[o].type = "before_action"
                /\ pc = "done" =>
                       final.status = (IF reasoning_history[k].goal_achieved THEN "achieved"
                                       ELSE "impossible")

\* C19 witness: with budget left, the first reasoning answered
\* goal_impossible and achieve_goal returned impossible after one iteration.
C19_Witness ==
    /\ Returned
    /\ max_iterations = 2
    /\ current_iteration = 1
    /\ reasoning_history[1].goal_impossible
    /\ ~reasoning_history[1].goal_achieved
    /\ final.status = "impossible"

\* C20: an executed action that failed with a non-zero exit code is a
\* critical failure: it is the last action attempted, no iteration follows
\* its own, and achieve_goal returns impossible.
C20_CriticalFailureStops ==
    flow = "achieve_goal" =>
        \A k \in 1..Len(action_history) :
            LET r == action_history[k].result IN
            (r.executed /\ ~r.success /\ r.ran.return_code # 0) =>
                /\ r.critical_failure
                /\ k = Len(action_history)
                /\ current_iteration = action_history[k].iteration
                /\ Returned => final.status = "impossible"

\* C21: a todo-list update keeps the completed flag of every item matched
\* by id: an item that was completed before the update is completed after
\* it, whatever the collaborator answered for it.
C21_CompletedPreserved ==
    [][(flow = "achieve_goal" /\ pc = "update") =>
          \A k \in 1..Len(todo_list'), m \in 1..Len(todo_list) :
              (todo_list'[k].id = todo_list[m].id /\ todo_list[m].completed)
                  => todo_list'[k].completed]_vars

\* C22: a keyboard interrupt at any point of achieve_goal never leaves
\* achieve_goal: the call returns status interrupted, with the iterations
\* started so far.
C22_InterruptNeverPropagates ==
    flow = "achieve_goal" =>
        /\ pc # "raised"
        /\ (pc = "done" /\ final.status = "interrupted") => final.iterations = current_iteration

IsBefore(c) == c.phase = "before_action"
IsReason(c) == c.phase = "reason"
IsAfter(c) == c.phase = "after_action"

\* C23: during and after every achieve_goal call on an agent, the iteration
\* counter, the three histories and the todo list hold only what this call
\* produced, and the result reports this call's actions and iterations.
C23_FreshStatePerCall ==
    (flow = "achieve_goal" /\ invocation >= 1) =>
        /\ current_iteration = Len(SelectSeq(calls, IsBefore))
        /\ Len(reasoning_history) = Len(SelectSeq(calls, IsReason))
        /\ HistoryIsAttempts
        /\ Len(observation_history) <=
               1 + Len(SelectSeq(calls, IsBefore)) + Len(SelectSeq(calls, IsAfter))
        /\ \A k \in 1..Len(observation_history) :
               (observation_history[k].type = "initial") <=> (k = 1)
        /\ pc \in {"observe_initial", "create_todo"} => todo_list = <<>>
        /\ \A k \in 1..Len(todo_list) :
               todo_list[k].completed =>
                   \E a \in 1..Len(action_history) :
                       /\ action_history[a].result.success
                       /\ action_history[a].action.todo_id = todo_list[k].id
        /\ (Returned /\ final.status # "interrupted") =>
               /\ final.total_actions = Len(SelectSeq(calls, IsAct))
               /\ final.iterations = Len(SelectSeq(calls, IsBefore))

\* C23 witness: the second call on the agent returned after one iteration
\* with two actions of its own.
C23_Witness ==
    /\ Returned
    /\ invocation = 2
    /\ final.status = "max_iterations"
    /\ final.iterations = 1
    /\ final.total_actions = 2

\* C24: with --dry-run, run, plan and goal never pass a command to the
\* executor, whatever the risk of the commands and the answers given.
C24_DryRunNeverExecutes ==
    (flow \in {"run", "plan", "goal"} /\ dry_run) =>
        /\ executed = <<>>
        /\ pc # "exec"

\* C24 witness: a run with --dry-run whose risky batch the user confirmed
\* ended without any execution.
C24_Witness ==
    /\ flow = "run"
    /\ dry_run
    /\ safety_result.has_risky
    /\ confirmed = "yes"
    /\ outcome = "dry_run"
    /\ executed = <<>>

\* C25: the marking after the Act phase completes exactly the todos whose
\* id is the todo_id of an action of the iteration that was executed
\* successfully; failed, declined and unexecuted actions mark nothing, no
\* completed todo is turned back, and no other step of the iteration marks.
C25_MarkedIffSucceeded ==
    [][flow = "achieve_goal" =>
         /\ pc = "observe" =>
               /\ Len(todo_list') = Len(todo_list)
               /\ \A k \in 1..Len(todo_list) :
                      /\ todo_list'[k].id = todo_list[k].id
                      /\ todo_list'[k].completed <=>
                             \/ todo_list[k].completed
                             \/ \E m \in 1..Len(action_results) :
                                    /\ action_results[m].executed
                                    /\ action_results[m].success
                                    /\ ~action_results[m].skipped
                                    /\ actions[m].todo_id = todo_list[k].id
         /\ pc \notin {"observe", "update"} => todo_list' = todo_list]_vars

\* C25 witness: after an iteration whose first action succeeded and whose
\* second was declined by the user, todo 1 is completed and todo 2 is not.
C25_Witness ==
    /\ flow = "achieve_goal"
    /\ pc = "loop"
    /\ current_iteration = 1
    /\ Len(action_results) = 2
    /\ action_results[1].success
    /\ action_results[2].skipped
    /\ Len(todo_list) = 2
    /\ todo_list[1].completed
    /\ ~todo_list[2].completed

\* The plan call that has just returned declared no_action_needed or gave
\* no actions.
PlannedNothing(c) == c.phase = "plan" /\ (c.no_action_needed \/ c.actions = 0)

\* The completed flag of every todo that is in both lists is the same.
SameFlags(old, new) ==
    \A k \in 1..Len(new), m \in 1..Len(old) :
        new[k].id = old[m].id => (new[k].completed <=> old[m].completed)

PhaseRank(phase) ==
    CASE phase = "before_action" -> 1
      [] phase = "reason" -> 2
      [] phase = "update" -> 3
      [] phase = "plan" -> 4
      [] phase = "act" -> 5
      [] phase = "after_action" -> 6
      [] phase = "mark" -> 7

\* The entries of observation_history of iteration i and of one type.
Observations(i, type) ==
    {k \in 1..Len(observation_history) :
        observation_history[k].iteration = i /\ observation_history[k].type = type}

\* Iteration i has ended.
IterationOver(i) == i < current_iteration \/ pc \in {"loop", "return", "done"}

\* C27: the phases of an iteration come in the order before_action
\* observation, reasoning, todo update, plan, actions, after_action
\* observation, todo marking, each at most once but for the actions;
\* observation_history has exactly one before_action entry per started
\* iteration, there before the reasoning call, and one after_action entry,
\* after the actions, for every iteration that reached the Act phase and
\* none for the others.
C27_PhaseOrder ==
    flow = "achieve_goal" =>
        /\ Len(calls) > 0 => calls[1] = [phase |-> "before_action", iteration |-> 1]
        /\ \A j \in 1..(Len(calls) - 1) :
               \/ /\ calls[j + 1].iteration = calls[j].iteration
                  /\ \/ PhaseRank(calls[j].phase) < PhaseRank(calls[j + 1].phase)
                     \/ calls[j].phase = "act" /\ calls[j + 1].phase = "act"
               \/ /\ calls[j + 1].iteration = calls[j].iteration + 1
                  /\ calls[j + 1].phase = "before_action"
                  /\ calls[j].phase \in {"plan", "mark"}
        /\ \A j \in 1..Len(calls) :
               /\ calls[j].phase = "plan" => calls[j - 1].phase \in {"reason", "update"}
               /\ calls[j].phase = "update" => calls[j - 1].phase = "reason"
               /\ calls[j].phase = "reason" => calls[j - 1].phase = "before_action"
               /\ calls[j].phase = "mark" => calls[j - 1].phase = "after_action"
               /\ calls[j].phase = "after_action" => calls[j - 1].phase = "act"
               /\ calls[j].iteration \in 1..current_iteration
        /\ \A i \in 1..current_iteration :
               /\ Cardinality(Observations(i, "before_action")) = 1
               /\ Cardinality(Observations(i, "after_action")) =
                      IF IterationOver(i) /\ \E a \in 1..Len(action_history) : action_history[a].iteration = i
                      THEN 1 ELSE 0
               /\ \A b \in Observations(i, "before_action"), a \in Observations(i, "after_action") : b < a
        /\ Len(observation_history) =
               1 + Len(SelectSeq(calls, IsBefore)) + Len(SelectSeq(calls, IsAfter))

\* C27 witness: two iterations went through all the phases, the second
\* with a todo update.
C27_Witness ==
    /\ flow = "achieve_goal"
    /\ pc = "loop"
    /\ current_iteration = 2
    /\ Len(observation_history) = 5
    /\ \E j \in 1..Len(calls) : calls[j].phase = "update" /\ calls[j].iteration = 2
    /\ calls[Len(calls)].phase = "mark"

\* The number of times the executor was called for step k.
Runs(k) == Cardinality({j \in 1..Len(executed) : executed[j].batch = k})

\* C28: no flow executes a command again by itself: run and chat execute
\* the batch once; a step of plan, react and of goal with auto_confirm is
\* executed at most once; a step of goal is executed at most twice, the
\* second time only from the failure prompt, which is asked after the first
\* execution only and not after the retry.
C28_NoAutomaticRetry ==
    flow \in Flows =>
        /\ flow \in {"run", "chat"} => Len(executed) <= Len(all_commands)
        /\ flow \in Stepwise =>
               /\ \A k \in 1..Len(commands) :
                      /\ Runs(k) <= (IF flow = "goal" /\ confirmOn THEN 2 ELSE 1)
                      /\ Runs(k) = 2 => step > k
               /\ pc = "exec" => Runs(step) = 0
               /\ pc = "ask_failure" => flow = "goal" /\ confirmOn /\ Runs(step) = 1

\* C28 witness: in goal mode the first step was executed, failed and was
\* retried once, and the loop is at the second step.
C28_Witness ==
    /\ flow = "goal"
    /\ Runs(1) = 2
    /\ step = 2
    /\ pc = "step"
    /\ Len(commands) >= 2

\* C29: the command the executor hands to the shell is, for every command
\* of the batch, the text it was given, which is the text that was
\* classified and shown.
C29_ExecutedAsClassified ==
    flow = "execute" =>
        \A k \in 1..Len(results) :
            results[k].command = commands[results[k].command_index + 1]

\* C30: in plan mode a declined risky step ends the plan: the result is
\* aborted, the steps before the declined one are the ones that ran, each
\* once and in order, their number is completed_steps, and neither the
\* declined step nor a later one is executed.
C30_DeclineAbortsPlan ==
    flow = "plan" =>
        /\ declined # {} =>
               /\ pc = "done"
               /\ outcome = "aborted"
               /\ declined = {step}
               /\ Len(executed) = step - 1
               /\ \A j \in 1..Len(executed) :
                      executed[j].batch = j /\ executed[j].command = commands[j]
        /\ outcome = "aborted" => declined # {}

\* C30 witness: a plan of three steps was aborted at its second step after
\* the first had run.
C30_Witness ==
    /\ flow = "plan"
    /\ outcome = "aborted"
    /\ Len(commands) = 3
    /\ declined = {2}
    /\ Len(executed) = 1

====
